---- MODULE Spec2Model ----
(***************************************************************************)
(* EthTrie (src/src/trie.rs): an Ethereum Merkle Patricia Trie over a      *)
(* content-addressed store.                                                *)
(*                                                                         *)
(* Representation.                                                         *)
(*   Vec<u8>        a sequence of integers 0..255                          *)
(*   Nibbles        a sequence of integers 0..16 (hex_data); a leaf path   *)
(*                  ends with the terminator 16                            *)
(*   Option<T>      <<>> for None, <<x>> for Some(x)                       *)
(*   Node           a record tagged by kind                                *)
(*   RLP bytes      the RLP item they encode: a byte string, a 32-byte     *)
(*                  digest string, or a list of items; RlpLen gives the    *)
(*                  exact number of bytes of the encoding                  *)
(*   H256           keccak(data) is the injective constructor Keccak(data) *)
(***************************************************************************)
EXTENDS Integers, Sequences, FiniteSets, TLC

\* src/src/trie.rs:16
HASHED_LENGTH == 32

None == <<>>
Some(x) == <<x>>

\* a function on 1..n as the tuple of its values
Tuple(f) == f \o <<>>

(***************************************************************************)
(* Nibbles (crate::nibbles)                                                *)
(***************************************************************************)
\* Nibbles::from_raw: two nibbles per byte, high first; 16 appended for a leaf
FromRaw(raw, is_leaf) ==
  [i \in 1..(2 * Len(raw)) |->
     IF i % 2 = 1 THEN raw[(i + 1) \div 2] \div 16 ELSE raw[i \div 2] % 16]
  \o (IF is_leaf THEN <<16>> ELSE <<>>)

\* Nibbles::at (0-based)
At(p, i) == p[i + 1]

\* Nibbles::slice(start, end) and Nibbles::offset(index)
Slice(p, lo, hi) == SubSeq(p, lo + 1, hi)
Offset(p, k) == Slice(p, k, Len(p))

\* Nibbles::common_prefix: the number of leading nibbles the two paths share
CommonPrefix(a, b) ==
  LET n == IF Len(a) < Len(b) THEN Len(a) ELSE Len(b)
      diff == {i \in 1..n : a[i] # b[i]}
  IN IF diff = {} THEN n ELSE (CHOOSE i \in diff : \A j \in diff : i <= j) - 1

\* Nibbles::join
Join(a, b) == a \o b

\* Nibbles::is_leaf
IsLeaf(p) == p[Len(p)] = 16

\* Nibbles::encode_compact (hex-prefix encoding)
EncodeCompact(p) ==
  LET is_leaf == IsLeaf(p)
      hex0 == IF is_leaf THEN SubSeq(p, 1, Len(p) - 1) ELSE p
      odd == Len(hex0) % 2 = 1
      v == IF odd THEN 16 + hex0[1] ELSE 0
      hex == IF odd THEN Tail(hex0) ELSE hex0
  IN <<v + (IF is_leaf THEN 32 ELSE 0)>>
     \o [i \in 1..(Len(hex) \div 2) |-> hex[2 * i - 1] * 16 + hex[2 * i]]

\* Nibbles::from_compact; flags above 3 panic in the code and are not decodable
CompactOk(c) == Len(c) > 0 /\ c[1] \div 16 <= 3

FromCompact(c) ==
  LET flag == c[1]
      is_leaf == flag \div 16 \in {2, 3}
      first == IF flag \div 16 \in {1, 3} THEN <<flag % 16>> ELSE <<>>
      rest == [i \in 1..(2 * (Len(c) - 1)) |->
                 IF i % 2 = 1 THEN c[1 + (i + 1) \div 2] \div 16
                 ELSE c[1 + i \div 2] % 16]
  IN first \o rest \o (IF is_leaf THEN <<16>> ELSE <<>>)

\* Nibbles::encode_raw: the key bytes of a path (terminator dropped)
EncodeRawKey(p) ==
  LET hex == IF Len(p) > 0 /\ IsLeaf(p) THEN SubSeq(p, 1, Len(p) - 1) ELSE p
  IN Tuple([i \in 1..(Len(hex) \div 2) |-> hex[2 * i - 1] * 16 + hex[2 * i]])

(***************************************************************************)
(* Nodes (crate::node)                                                     *)
(***************************************************************************)
EmptyNode == [kind |-> "Empty"]
FromLeaf(key, value) == [kind |-> "Leaf", key |-> key, value |-> value]
FromExtension(prefix, node) == [kind |-> "Extension", prefix |-> prefix, node |-> node]
FromBranch(children, value) == [kind |-> "Branch", children |-> children, value |-> value]
FromHash(hash) == [kind |-> "Hash", hash |-> hash]

\* node::empty_children
EmptyChildren == Tuple([i \in 1..16 |-> EmptyNode])

\* BranchNode::insert: slot 16 takes the value of the leaf, slots 0..15 the node
BranchInsert(branch, i, n) ==
  IF i = 16 THEN [branch EXCEPT !.value = Some(n.value)]
  ELSE [branch EXCEPT !.children[i + 1] = n]

(***************************************************************************)
(* RLP items and keccak                                                    *)
(***************************************************************************)
RlpData(bytes) == [t |-> "data", b |-> bytes]
RlpDigest(hash) == [t |-> "digest", h |-> hash]
RlpList(items) == [t |-> "list", items |-> items]

\* rlp::NULL_RLP, the encoding 0x80 of the empty byte string
NULL_RLP == RlpData(<<>>)

Keccak(data) == [keccak |-> data]

\* the bytes of an RLP string or list whose payload has n bytes
WithHeader(n) == IF n <= 55 THEN 1 + n ELSE IF n < 256 THEN 2 + n ELSE 3 + n

RECURSIVE RlpLen(_)
\* the number of bytes of the RLP encoding of an item
RlpLen(item) ==
  CASE item.t = "data" ->
         IF Len(item.b) = 1 /\ item.b[1] < 128 THEN 1 ELSE WithHeader(Len(item.b))
    [] item.t = "digest" -> 1 + HASHED_LENGTH
    [] item.t = "list" ->
         LET lens == Tuple([i \in 1..Len(item.items) |-> RlpLen(item.items[i])])
             sum[i \in 0..Len(item.items)] == IF i = 0 THEN 0 ELSE sum[i - 1] + lens[i]
         IN WithHeader(sum[Len(item.items)])

(***************************************************************************)
(* Results and errors (crate::errors::TrieError)                           *)
(***************************************************************************)
NoErr == [e |-> "none"]
InvalidStateRoot == [e |-> "InvalidStateRoot"]
InvalidProof == [e |-> "InvalidProof"]
InvalidData == [e |-> "InvalidData"]
DecoderError == [e |-> "Decoder"]
MissingTrieNode(node_hash, traversed, root_hash, err_key) ==
  [e |-> "MissingTrieNode", node_hash |-> node_hash, traversed |-> traversed,
   root_hash |-> root_hash, err_key |-> err_key]

Ok(x) == [ok |-> TRUE, val |-> x, err |-> NoErr]
Err(e) == [ok |-> FALSE, val |-> None, err |-> e]

\* the re-wrapping every public entry point does: err_key is set to the key
WithErrKey(err, key) ==
  IF err.e = "MissingTrieNode" THEN [err EXCEPT !.err_key = Some(key)] ELSE err

(***************************************************************************)
(* Maps (HashMap<Vec<u8>, Vec<u8>>): functions from digests to node data   *)
(***************************************************************************)
EmptyMap == <<>>
Put(m, k, v) == (k :> v) @@ m
PutAll(m, more) == more @@ m

(***************************************************************************)
(* Codec                                                                   *)
(***************************************************************************)
RECURSIVE EncodeRaw(_)
RECURSIVE EncodeNode(_)
\* encode_node: what the parent appends for n (a digest or the inlined
\* encoding), with the cache and gen_keys entries the call adds
EncodeNode(n) ==
  IF n.kind = "Hash"
  THEN [hashed |-> TRUE, item |-> RlpDigest(n.hash), cache |-> EmptyMap, gen |-> {}]
  ELSE LET Hashed(r, hash) ==
             [hashed |-> TRUE, item |-> RlpDigest(hash),
              cache |-> Put(r.cache, hash, r.data), gen |-> r.gen \cup {hash}]
           Encoded(r) ==
             IF RlpLen(r.data) < HASHED_LENGTH
             THEN [hashed |-> FALSE, item |-> r.data, cache |-> r.cache, gen |-> r.gen]
             ELSE Hashed(r, Keccak(r.data))
       IN Encoded(EncodeRaw(n))

\* encode_raw: the encoding of n, with the cache and gen_keys entries that
\* encoding its children adds
EncodeRaw(n) ==
  CASE n.kind = "Empty" -> [data |-> NULL_RLP, cache |-> EmptyMap, gen |-> {}]
    [] n.kind = "Leaf" ->
         [data |-> RlpList(<<RlpData(EncodeCompact(n.key)), RlpData(n.value)>>),
          cache |-> EmptyMap, gen |-> {}]
    [] n.kind = "Branch" ->
         LET value == IF n.value = None THEN RlpData(<<>>) ELSE RlpData(n.value[1])
             Encoded(enc) ==
               [data |-> RlpList(Tuple([i \in 1..16 |-> enc[i].item]) \o <<value>>),
                cache |-> [k \in UNION {DOMAIN enc[i].cache : i \in 1..16} |->
                             enc[CHOOSE i \in 1..16 : k \in DOMAIN enc[i].cache].cache[k]],
                gen |-> UNION {enc[i].gen : i \in 1..16}]
         IN Encoded(Tuple([i \in 1..16 |-> EncodeNode(n.children[i])]))
    [] n.kind = "Extension" ->
         LET Encoded(c) ==
               [data |-> RlpList(<<RlpData(EncodeCompact(n.prefix)), c.item>>),
                cache |-> c.cache, gen |-> c.gen]
         IN Encoded(EncodeNode(n.node))

RECURSIVE DecodeNode(_)
\* decode_node
DecodeNode(item) ==
  CASE item.t = "data" /\ Len(item.b) = 0 -> Ok(EmptyNode)
    [] item.t = "list" /\ Len(item.items) = 2 ->
         LET k == item.items[1]
             v == item.items[2]
         IN IF k.t # "data" \/ ~CompactOk(k.b) THEN Err(DecoderError)
            ELSE LET Keyed(key) ==
                       IF key = <<>> THEN Err(DecoderError)
                       ELSE IF IsLeaf(key)
                       THEN IF v.t = "data" THEN Ok(FromLeaf(key, v.b))
                            ELSE Err(DecoderError)
                       ELSE LET r == DecodeNode(v) IN
                            IF r.ok THEN Ok(FromExtension(key, r.val)) ELSE r
                 IN Keyed(FromCompact(k.b))
    [] item.t = "list" /\ Len(item.items) = 17 ->
         LET dec == Tuple([i \in 1..16 |-> DecodeNode(item.items[i])])
             bad == {i \in 1..16 : ~dec[i].ok}
             v == item.items[17]
         IN IF bad # {} THEN dec[CHOOSE i \in bad : \A j \in bad : i <= j]
            ELSE IF (v.t = "data" /\ Len(v.b) = 0) \/ (v.t = "list" /\ Len(v.items) = 0)
            THEN Ok(FromBranch(Tuple([i \in 1..16 |-> dec[i].val]), None))
            ELSE IF v.t = "data"
            THEN Ok(FromBranch(Tuple([i \in 1..16 |-> dec[i].val]), Some(v.b)))
            ELSE Err(DecoderError)
    [] OTHER ->
         IF item.t = "digest" THEN Ok(FromHash(item.h))
         ELSE IF item.t = "data" /\ Len(item.b) = HASHED_LENGTH
         THEN Ok(FromHash([raw |-> item.b]))
         ELSE Err(InvalidData)

\* recover_from_db
RecoverFromDb(db, key) ==
  IF key \in DOMAIN db
  THEN LET Decoded(d) == IF d.ok THEN Ok(Some(d.val)) ELSE d
       IN Decoded(DecodeNode(db[key]))
  ELSE Ok(None)

(***************************************************************************)
(* Lookup                                                                  *)
(***************************************************************************)
RECURSIVE GetAt(_, _, _, _, _)
\* get_at
GetAt(db, rh, n, path, path_index) ==
  LET partial == Offset(path, path_index) IN
  CASE n.kind = "Empty" -> Ok(None)
    [] n.kind = "Leaf" -> IF n.key = partial THEN Ok(Some(n.value)) ELSE Ok(None)
    [] n.kind = "Branch" ->
         IF partial = <<>> \/ At(partial, 0) = 16 THEN Ok(n.value)
         ELSE GetAt(db, rh, n.children[At(partial, 0) + 1], path, path_index + 1)
    [] n.kind = "Extension" ->
         LET match_len == CommonPrefix(partial, n.prefix) IN
         IF match_len = Len(n.prefix)
         THEN GetAt(db, rh, n.node, path, path_index + match_len)
         ELSE Ok(None)
    [] n.kind = "Hash" ->
         LET Recovered(r) ==
               IF ~r.ok THEN Err(r.err)
               ELSE IF r.val = None
               THEN Err(MissingTrieNode(n.hash, Some(Slice(path, 0, path_index)),
                                        Some(rh), None))
               ELSE GetAt(db, rh, r.val[1], path, path_index)
         IN Recovered(RecoverFromDb(db, n.hash))

\* a get that passes the error of get_at on as it is
GetKeepsErr(db, rh, rt, key) ==
  LET Result(r) == r
  IN Result(GetAt(db, rh, rt, FromRaw(key, TRUE), 0))

\* Trie::get
Get(db, rh, rt, key) ==
  LET Result(r) == IF r.ok THEN r ELSE Err(WithErrKey(r.err, key))
  IN Result(GetAt(db, rh, rt, FromRaw(key, TRUE), 0))

(***************************************************************************)
(* Insert                                                                  *)
(***************************************************************************)
\* a node result with the digests the call added to passing_keys
NodeOk(n, pk) == [ok |-> TRUE, node |-> n, err |-> NoErr, pk |-> pk]
NodeErr(e, n, pk) == [ok |-> FALSE, node |-> n, err |-> e, pk |-> pk]

\* insert_at, Leaf arm
\* a Leaf arm that keeps the stored value when the key is already there
InsertAtLeafKeepsOld(n, partial, value) ==
  LET old_partial == n.key
      match_index == CommonPrefix(partial, old_partial)
  IN IF match_index = Len(old_partial)
     THEN n
     ELSE LET b0 == FromBranch(EmptyChildren, None)
              b1 == BranchInsert(b0, At(old_partial, match_index),
                                 FromLeaf(Offset(old_partial, match_index + 1), n.value))
              b2 == BranchInsert(b1, At(partial, match_index),
                                 FromLeaf(Offset(partial, match_index + 1), value))
          IN IF match_index = 0 THEN b2
             ELSE FromExtension(Slice(partial, 0, match_index), b2)

\* a Leaf arm that loses the stored value when the stored key ends where the
\* new Branch stands
InsertAtLeafDropsOldValue(n, partial, value) ==
  LET old_partial == n.key
      match_index == CommonPrefix(partial, old_partial)
  IN IF match_index = Len(old_partial)
     THEN [n EXCEPT !.value = value]
     ELSE LET b0 == FromBranch(EmptyChildren, None)
              b1 == IF At(old_partial, match_index) = 16 THEN b0
                    ELSE BranchInsert(b0, At(old_partial, match_index),
                                      FromLeaf(Offset(old_partial, match_index + 1), n.value))
              b2 == BranchInsert(b1, At(partial, match_index),
                                 FromLeaf(Offset(partial, match_index + 1), value))
          IN IF match_index = 0 THEN b2
             ELSE FromExtension(Slice(partial, 0, match_index), b2)

\* a Leaf arm that leaves out the Extension over the common prefix
InsertAtLeafWithoutPrefix(n, partial, value) ==
  LET old_partial == n.key
      match_index == CommonPrefix(partial, old_partial)
  IN IF match_index = Len(old_partial)
     THEN [n EXCEPT !.value = value]
     ELSE LET b0 == FromBranch(EmptyChildren, None)
              b1 == BranchInsert(b0, At(old_partial, match_index),
                                 FromLeaf(Offset(old_partial, match_index + 1), n.value))
              b2 == BranchInsert(b1, At(partial, match_index),
                                 FromLeaf(Offset(partial, match_index + 1), value))
          IN b2

\* the Leaf arm of insert_at
InsertAtLeaf(n, partial, value) ==
  LET old_partial == n.key
      match_index == CommonPrefix(partial, old_partial)
  IN IF match_index = Len(old_partial)
     THEN [n EXCEPT !.value = value]
     ELSE LET b0 == FromBranch(EmptyChildren, None)
              b1 == BranchInsert(b0, At(old_partial, match_index),
                                 FromLeaf(Offset(old_partial, match_index + 1), n.value))
              b2 == BranchInsert(b1, At(partial, match_index),
                                 FromLeaf(Offset(partial, match_index + 1), value))
          IN IF match_index = 0 THEN b2
             ELSE FromExtension(Slice(partial, 0, match_index), b2)

RECURSIVE InsertAt(_, _, _, _, _, _)
\* insert_at. No arm changes a node in place before its recursive call has
\* succeeded, so a failed call leaves n as it was.
InsertAt(db, rh, n, path, path_index, value) ==
  LET partial == Offset(path, path_index) IN
  CASE n.kind = "Empty" -> NodeOk(FromLeaf(partial, value), {})
    [] n.kind = "Leaf" -> NodeOk(InsertAtLeaf(n, partial, value), {})
    [] n.kind = "Branch" ->
         IF At(partial, 0) = 16 THEN NodeOk([n EXCEPT !.value = Some(value)], {})
         ELSE LET r == InsertAt(db, rh, n.children[At(partial, 0) + 1], path,
                                path_index + 1, value)
              IN IF ~r.ok THEN NodeErr(r.err, n, r.pk)
                 ELSE NodeOk([n EXCEPT !.children[At(partial, 0) + 1] = r.node], r.pk)
    [] n.kind = "Extension" ->
         LET prefix == n.prefix
             sub_node == n.node
             match_index == CommonPrefix(partial, prefix)
         IN IF match_index = 0
            THEN LET branch == BranchInsert(FromBranch(EmptyChildren, None), At(prefix, 0),
                                  IF Len(prefix) = 1 THEN sub_node
                                  ELSE FromExtension(Offset(prefix, 1), sub_node))
                     r == InsertAt(db, rh, branch, path, path_index, value)
                 IN IF ~r.ok THEN NodeErr(r.err, n, r.pk) ELSE r
            ELSE IF match_index = Len(prefix)
            THEN LET r == InsertAt(db, rh, sub_node, path, path_index + match_index, value)
                 IN IF ~r.ok THEN NodeErr(r.err, n, r.pk)
                    ELSE NodeOk(FromExtension(prefix, r.node), r.pk)
            ELSE LET new_ext == FromExtension(Offset(prefix, match_index), sub_node)
                     r == InsertAt(db, rh, new_ext, path, path_index + match_index, value)
                 IN IF ~r.ok THEN NodeErr(r.err, n, r.pk)
                    ELSE NodeOk(FromExtension(Slice(prefix, 0, match_index), r.node), r.pk)
    [] n.kind = "Hash" ->
         LET Recovered(rec) ==
               IF ~rec.ok THEN NodeErr(rec.err, n, {n.hash})
               ELSE IF rec.val = None
               THEN NodeErr(MissingTrieNode(n.hash, Some(Slice(path, 0, path_index)),
                                            Some(rh), None), n, {n.hash})
               ELSE LET r == InsertAt(db, rh, rec.val[1], path, path_index, value)
                    IN IF ~r.ok THEN NodeErr(r.err, n, r.pk \cup {n.hash})
                       ELSE NodeOk(r.node, r.pk \cup {n.hash})
         IN Recovered(RecoverFromDb(db, n.hash))

(***************************************************************************)
(* Delete                                                                  *)
(***************************************************************************)
RECURSIVE Degenerate(_, _, _)
\* a degenerate that forgets the prefix when it merges an Extension into a Leaf
DegenerateLosesPrefix(db, rh, n) ==
  CASE n.kind = "Branch" ->
         LET used_indexs == {i \in 0..15 : n.children[i + 1].kind # "Empty"} IN
         IF used_indexs = {} /\ n.value # None
         THEN NodeOk(FromLeaf(FromRaw(<<>>, TRUE), n.value[1]), {})
         ELSE IF Cardinality(used_indexs) = 1 /\ n.value = None
         THEN LET used_index == CHOOSE i \in used_indexs : TRUE IN
              Degenerate(db, rh, FromExtension(<<used_index>>, n.children[used_index + 1]))
         ELSE NodeOk(n, {})
    [] n.kind = "Extension" ->
         LET sub == n.node IN
         CASE sub.kind = "Extension" ->
                Degenerate(db, rh, FromExtension(Join(n.prefix, sub.prefix), sub.node))
           [] sub.kind = "Leaf" ->
                NodeOk(FromLeaf(sub.key, sub.value), {})
           [] sub.kind = "Hash" ->
                LET Recovered(rec) ==
                      IF ~rec.ok THEN NodeErr(rec.err, n, {sub.hash})
                      ELSE IF rec.val = None
                      THEN NodeErr(MissingTrieNode(sub.hash, None, Some(rh), None), n,
                                   {sub.hash})
                      ELSE LET r == Degenerate(db, rh, FromExtension(n.prefix, rec.val[1]))
                           IN [r EXCEPT !.pk = @ \cup {sub.hash}]
                IN Recovered(RecoverFromDb(db, sub.hash))
           [] OTHER -> NodeOk(n, {})
    [] OTHER -> NodeOk(n, {})

\* degenerate: builds new nodes, changes none in place
Degenerate(db, rh, n) ==
  CASE n.kind = "Branch" ->
         LET used_indexs == {i \in 0..15 : n.children[i + 1].kind # "Empty"} IN
         IF used_indexs = {} /\ n.value # None
         THEN NodeOk(FromLeaf(FromRaw(<<>>, TRUE), n.value[1]), {})
         ELSE IF Cardinality(used_indexs) = 1 /\ n.value = None
         THEN LET used_index == CHOOSE i \in used_indexs : TRUE IN
              Degenerate(db, rh, FromExtension(<<used_index>>, n.children[used_index + 1]))
         ELSE NodeOk(n, {})
    [] n.kind = "Extension" ->
         LET sub == n.node IN
         CASE sub.kind = "Extension" ->
                Degenerate(db, rh, FromExtension(Join(n.prefix, sub.prefix), sub.node))
           [] sub.kind = "Leaf" ->
                NodeOk(FromLeaf(Join(n.prefix, sub.key), sub.value), {})
           [] sub.kind = "Hash" ->
                LET Recovered(rec) ==
                      IF ~rec.ok THEN NodeErr(rec.err, n, {sub.hash})
                      ELSE IF rec.val = None
                      THEN NodeErr(MissingTrieNode(sub.hash, None, Some(rh), None), n,
                                   {sub.hash})
                      ELSE LET r == Degenerate(db, rh, FromExtension(n.prefix, rec.val[1]))
                           IN [r EXCEPT !.pk = @ \cup {sub.hash}]
                IN Recovered(RecoverFromDb(db, sub.hash))
           [] OTHER -> NodeOk(n, {})
    [] OTHER -> NodeOk(n, {})

\* a delete_at result. On failure, node is what the cell of n holds by then:
\* delete_at assigns into the shared cells of the tree before it calls
\* degenerate, and a failure does not undo the assignment.
DelOk(n, deleted, pk) == [ok |-> TRUE, node |-> n, deleted |-> deleted, err |-> NoErr, pk |-> pk]
DelErr(e, n, pk) == [ok |-> FALSE, node |-> n, deleted |-> FALSE, err |-> e, pk |-> pk]

\* a tail of delete_at that calls degenerate on no Extension
DeleteTailSkipsExtension(db, rh, new_n, deleted, pk, cell) ==
  IF deleted /\ new_n.kind # "Extension"
  THEN LET Degenerated(g) ==
             IF g.ok THEN DelOk(g.node, TRUE, pk \cup g.pk)
             ELSE DelErr(g.err, cell, pk \cup g.pk)
       IN Degenerated(Degenerate(db, rh, new_n))
  ELSE DelOk(new_n, deleted, pk)

\* the tail of delete_at: degenerate runs when the arm reported a deletion
DeleteTail(db, rh, new_n, deleted, pk, cell) ==
  IF deleted
  THEN LET Degenerated(g) ==
             IF g.ok THEN DelOk(g.node, TRUE, pk \cup g.pk)
             ELSE DelErr(g.err, cell, pk \cup g.pk)
       IN Degenerated(Degenerate(db, rh, new_n))
  ELSE DelOk(new_n, FALSE, pk)

RECURSIVE DeleteAt(_, _, _, _, _)
\* delete_at. The Leaf arm and the value arm of Branch return from the
\* function, past the tail.
DeleteAt(db, rh, n, path, path_index) ==
  LET partial == Offset(path, path_index) IN
  CASE n.kind = "Empty" -> DelOk(EmptyNode, FALSE, {})
    [] n.kind = "Leaf" ->
         IF n.key = partial THEN DelOk(EmptyNode, TRUE, {}) ELSE DelOk(n, FALSE, {})
    [] n.kind = "Branch" ->
         IF At(partial, 0) = 16 THEN DelOk([n EXCEPT !.value = None], TRUE, {})
         ELSE LET index == At(partial, 0)
                  r == DeleteAt(db, rh, n.children[index + 1], path, path_index + 1)
                  upd == [n EXCEPT !.children[index + 1] = r.node]
              IN IF ~r.ok THEN DelErr(r.err, upd, r.pk)
                 ELSE DeleteTail(db, rh, IF r.deleted THEN upd ELSE n, r.deleted, r.pk,
                                 upd)
    [] n.kind = "Extension" ->
         LET match_len == CommonPrefix(partial, n.prefix) IN
         IF match_len = Len(n.prefix)
         THEN LET r == DeleteAt(db, rh, n.node, path, path_index + match_len)
                  upd == [n EXCEPT !.node = r.node]
              IN IF ~r.ok THEN DelErr(r.err, upd, r.pk)
                 ELSE DeleteTail(db, rh, IF r.deleted THEN upd ELSE n, r.deleted, r.pk,
                                 upd)
         ELSE DelOk(n, FALSE, {})
    [] n.kind = "Hash" ->
         LET Recovered(rec) ==
               IF ~rec.ok THEN DelErr(rec.err, n, {n.hash})
               ELSE IF rec.val = None
               THEN DelErr(MissingTrieNode(n.hash, Some(Slice(path, 0, path_index)),
                                           Some(rh), None), n, {n.hash})
               ELSE LET r == DeleteAt(db, rh, rec.val[1], path, path_index)
                    IN IF ~r.ok THEN DelErr(r.err, n, r.pk \cup {n.hash})
                       ELSE DeleteTail(db, rh, r.node, r.deleted, r.pk \cup {n.hash}, n)
         IN Recovered(RecoverFromDb(db, n.hash))

(***************************************************************************)
(* Proofs                                                                  *)
(***************************************************************************)
RECURSIVE GetPathAt(_, _, _, _, _)
\* a get_path_at that reports the path consumed when a node is missing
GetPathAtTraversed(db, rh, n, path, path_index) ==
  LET partial == Offset(path, path_index) IN
  CASE n.kind \in {"Empty", "Leaf"} -> Ok(<<>>)
    [] n.kind = "Branch" ->
         IF partial = <<>> \/ At(partial, 0) = 16 THEN Ok(<<>>)
         ELSE GetPathAt(db, rh, n.children[At(partial, 0) + 1], path, path_index + 1)
    [] n.kind = "Extension" ->
         LET match_len == CommonPrefix(partial, n.prefix) IN
         IF match_len = Len(n.prefix)
         THEN GetPathAt(db, rh, n.node, path, path_index + match_len)
         ELSE Ok(<<>>)
    [] n.kind = "Hash" ->
         LET Recovered(rec) ==
               IF ~rec.ok THEN Err(rec.err)
               ELSE IF rec.val = None
               THEN Err(MissingTrieNode(n.hash, Some(Slice(path, 0, path_index)),
                                        Some(rh), None))
               ELSE LET rest == GetPathAt(db, rh, rec.val[1], path, path_index) IN
                    IF ~rest.ok THEN rest ELSE Ok(Append(rest.val, rec.val[1]))
         IN Recovered(RecoverFromDb(db, n.hash))

\* get_path_at: the nodes recovered from the store along the path, deepest first
GetPathAt(db, rh, n, path, path_index) ==
  LET partial == Offset(path, path_index) IN
  CASE n.kind \in {"Empty", "Leaf"} -> Ok(<<>>)
    [] n.kind = "Branch" ->
         IF partial = <<>> \/ At(partial, 0) = 16 THEN Ok(<<>>)
         ELSE GetPathAt(db, rh, n.children[At(partial, 0) + 1], path, path_index + 1)
    [] n.kind = "Extension" ->
         LET match_len == CommonPrefix(partial, n.prefix) IN
         IF match_len = Len(n.prefix)
         THEN GetPathAt(db, rh, n.node, path, path_index + match_len)
         ELSE Ok(<<>>)
    [] n.kind = "Hash" ->
         LET Recovered(rec) ==
               IF ~rec.ok THEN Err(rec.err)
               ELSE IF rec.val = None
               THEN Err(MissingTrieNode(n.hash, None, Some(rh), None))
               ELSE LET rest == GetPathAt(db, rh, rec.val[1], path, path_index) IN
                    IF ~rest.ok THEN rest ELSE Ok(Append(rest.val, rec.val[1]))
         IN Recovered(RecoverFromDb(db, n.hash))

Reverse(s) == Tuple([i \in 1..Len(s) |-> s[Len(s) + 1 - i]])

\* a get_proof that leaves the root out of the proof
GetProofWithoutRoot(db, rh, rt, key) ==
  LET Encoded(enc) ==
        [ok |-> TRUE, val |-> Tuple([i \in 1..Len(enc) |-> enc[i].data]), err |-> NoErr,
         cache |-> [k \in UNION {DOMAIN enc[i].cache : i \in 1..Len(enc)} |->
                      enc[CHOOSE i \in 1..Len(enc) : k \in DOMAIN enc[i].cache].cache[k]],
         gen |-> UNION {enc[i].gen : i \in 1..Len(enc)}]
      Reversed(rev) == Encoded(Tuple([i \in 1..Len(rev) |-> EncodeRaw(rev[i])]))
      Found(result) ==
        IF ~result.ok
        THEN [ok |-> FALSE, val |-> <<>>, err |-> WithErrKey(result.err, key),
              cache |-> EmptyMap, gen |-> {}]
        ELSE Reversed(Reverse(result.val))
  IN Found(GetPathAt(db, rh, rt, FromRaw(key, TRUE), 0))

\* Trie::get_proof: the encodings, root first, and what encoding them through
\* encode_raw adds to cache and gen_keys
GetProof(db, rh, rt, key) ==
  LET Encoded(enc) ==
        [ok |-> TRUE, val |-> Tuple([i \in 1..Len(enc) |-> enc[i].data]), err |-> NoErr,
         cache |-> [k \in UNION {DOMAIN enc[i].cache : i \in 1..Len(enc)} |->
                      enc[CHOOSE i \in 1..Len(enc) : k \in DOMAIN enc[i].cache].cache[k]],
         gen |-> UNION {enc[i].gen : i \in 1..Len(enc)}]
      Reversed(rev) == Encoded(Tuple([i \in 1..Len(rev) |-> EncodeRaw(rev[i])]))
      Found(result) ==
        IF ~result.ok
        THEN [ok |-> FALSE, val |-> <<>>, err |-> WithErrKey(result.err, key),
              cache |-> EmptyMap, gen |-> {}]
        ELSE Reversed(Reverse(IF rt.kind = "Empty" THEN result.val ELSE Append(result.val, rt)))
  IN Found(GetPathAt(db, rh, rt, FromRaw(key, TRUE), 0))

\* a from that takes an entry that does not decode for the empty trie
FromSwallowsDecodeError(db, h) ==
  IF h \in DOMAIN db
  THEN LET Decoded(d) ==
             Ok([root |-> IF d.ok THEN d.val ELSE EmptyNode, root_hash |-> h,
                 cache |-> EmptyMap, passing_keys |-> {}, gen_keys |-> {}])
       IN Decoded(DecodeNode(db[h]))
  ELSE Err(InvalidStateRoot)

\* a from that does not decode the root
FromWithoutRoot(db, h) ==
  IF h \in DOMAIN db
  THEN Ok([root |-> EmptyNode, root_hash |-> h, cache |-> EmptyMap,
           passing_keys |-> {}, gen_keys |-> {}])
  ELSE Err(InvalidStateRoot)

\* EthTrie::from: the fields of the loaded trie
From(db, h) ==
  IF h \in DOMAIN db
  THEN LET Decoded(d) ==
             IF d.ok THEN Ok([root |-> d.val, root_hash |-> h, cache |-> EmptyMap,
                              passing_keys |-> {}, gen_keys |-> {}])
             ELSE Err(d.err)
       IN Decoded(DecodeNode(db[h]))
  ELSE Err(InvalidStateRoot)

RECURSIVE ProofDb(_, _)
\* the store verify_proof fills from the proof
ProofDb(h, proof) ==
  IF proof = <<>> THEN EmptyMap
  ELSE LET node_encoded == proof[Len(proof)]
           hash == Keccak(node_encoded)
           memdb == ProofDb(h, SubSeq(proof, 1, Len(proof) - 1))
       IN IF h = hash \/ RlpLen(node_encoded) >= HASHED_LENGTH
          THEN Put(memdb, hash, node_encoded) ELSE memdb

\* a verify_proof that passes the error of get on
VerifyProofKeepsErr(h, key, proof) ==
  LET Loaded(memdb, trie) ==
        IF ~trie.ok THEN Err(InvalidProof)
        ELSE Get(memdb, trie.val.root_hash, trie.val.root, key)
      Filled(memdb) == Loaded(memdb, From(memdb, h))
  IN Filled(ProofDb(h, proof))

\* Trie::verify_proof
VerifyProof(h, key, proof) ==
  LET Result(r) == IF r.ok THEN r ELSE Err(InvalidProof)
      Loaded(memdb, trie) ==
        IF ~trie.ok THEN Err(InvalidProof)
        ELSE Result(Get(memdb, trie.val.root_hash, trie.val.root, key))
      Filled(memdb) == Loaded(memdb, From(memdb, h))
  IN Filled(ProofDb(h, proof))

(***************************************************************************)
(* Iteration                                                               *)
(***************************************************************************)
\* TraceStatus
TraceStart == [s |-> "Start", i |-> 0]
TraceDoing == [s |-> "Doing", i |-> 0]
TraceChild(i) == [s |-> "Child", i |-> i]
TraceEnd == [s |-> "End", i |-> 0]

\* From<Node> for TraceNode
TraceNode(node) == [node |-> node, status |-> TraceStart]

\* an advance that passes over the first child of a Branch
AdvanceSkipsChild(t) ==
  [t EXCEPT !.status =
     CASE t.status.s = "Start" -> TraceDoing
       [] t.status.s = "Doing" ->
            IF t.node.kind = "Branch" THEN TraceChild(1) ELSE TraceEnd
       [] t.status.s = "Child" /\ t.status.i < 15 -> TraceChild(t.status.i + 1)
       [] OTHER -> TraceEnd]

\* TraceNode::advance
Advance(t) ==
  [t EXCEPT !.status =
     CASE t.status.s = "Start" -> TraceDoing
       [] t.status.s = "Doing" ->
            IF t.node.kind = "Branch" THEN TraceChild(0) ELSE TraceEnd
       [] t.status.s = "Child" /\ t.status.i < 15 -> TraceChild(t.status.i + 1)
       [] OTHER -> TraceEnd]

RECURSIVE IterNext(_, _, _)
\* TrieIterator::next, called until it returns None: the pairs it yields, in
\* order. Each unfolding is one turn of the loop.
IterNext(sdb, nodes, nibble) ==
  IF nodes = <<>> THEN <<>>
  ELSE LET now == nodes[Len(nodes)]
           popped == SubSeq(nodes, 1, Len(nodes) - 1)
           advanced == Append(popped, Advance(now))
           st == now.status.s
           kind == now.node.kind
       IN CASE st = "End" ->
                 IterNext(sdb, popped,
                          CASE kind = "Leaf" ->
                                 SubSeq(nibble, 1, Len(nibble) - Len(now.node.key))
                            [] kind = "Extension" ->
                                 SubSeq(nibble, 1, Len(nibble) - Len(now.node.prefix))
                            [] kind = "Branch" -> SubSeq(nibble, 1, Len(nibble) - 1)
                            [] OTHER -> nibble)
            [] st = "Doing" /\ kind = "Extension" ->
                 IterNext(sdb, Append(advanced, TraceNode(now.node.node)),
                          nibble \o now.node.prefix)
            [] st = "Doing" /\ kind = "Leaf" ->
                 << <<EncodeRawKey(nibble \o now.node.key), now.node.value>> >>
                   \o IterNext(sdb, advanced, nibble \o now.node.key)
            [] st = "Doing" /\ kind = "Branch" ->
                 (IF now.node.value # None
                  THEN << <<EncodeRawKey(nibble), now.node.value[1]>> >>
                  ELSE <<>>)
                   \o IterNext(sdb, advanced, nibble)
            [] st = "Doing" /\ kind = "Hash" ->
                 LET Recovered(r) ==
                       IF ~r.ok THEN <<>>
                       ELSE IF r.val = None THEN IterNext(sdb, popped, nibble)
                       ELSE IterNext(sdb, Append(popped, TraceNode(r.val[1])), nibble)
                 IN Recovered(RecoverFromDb(sdb, now.node.hash))
            [] st = "Child" /\ kind = "Branch" ->
                 IterNext(sdb, Append(advanced, TraceNode(now.node.children[now.status.i + 1])),
                          (IF now.status.i = 0 THEN nibble
                           ELSE SubSeq(nibble, 1, Len(nibble) - 1)) \o <<now.status.i>>)
            [] st # "End" /\ kind = "Empty" -> IterNext(sdb, popped, nibble)
            [] OTHER -> IterNext(sdb, advanced, nibble)

\* EthTrie::iter, run to its end
Iter(sdb, rt) == IterNext(sdb, <<TraceNode(rt)>>, FromRaw(<<>>, FALSE))

\* a turn of the loop that ends the iteration at a node missing from the store
IterStepStopsAtMissing(sdb, nodes, nibble) ==
  LET now == nodes[Len(nodes)]
      popped == SubSeq(nodes, 1, Len(nodes) - 1)
      advanced == Append(popped, Advance(now))
      st == now.status.s
      kind == now.node.kind
      Turn(ns, nib, yield, event) ==
        [nodes |-> ns, nibble |-> nib, yield |-> yield, event |-> event]
  IN CASE st = "End" ->
            Turn(popped,
                 CASE kind = "Leaf" -> SubSeq(nibble, 1, Len(nibble) - Len(now.node.key))
                   [] kind = "Extension" ->
                        SubSeq(nibble, 1, Len(nibble) - Len(now.node.prefix))
                   [] kind = "Branch" -> SubSeq(nibble, 1, Len(nibble) - 1)
                   [] OTHER -> nibble,
                 <<>>, "pop")
       [] st = "Doing" /\ kind = "Extension" ->
            Turn(Append(advanced, TraceNode(now.node.node)), nibble \o now.node.prefix,
                 <<>>, "push")
       [] st = "Doing" /\ kind = "Leaf" ->
            Turn(advanced, nibble \o now.node.key,
                 << <<EncodeRawKey(nibble \o now.node.key), now.node.value>> >>, "none")
       [] st = "Doing" /\ kind = "Branch" ->
            Turn(advanced, nibble,
                 IF now.node.value # None
                 THEN << <<EncodeRawKey(nibble), now.node.value[1]>> >>
                 ELSE <<>>,
                 "none")
       [] st = "Doing" /\ kind = "Hash" ->
            LET Recovered(r) ==
                  IF ~r.ok THEN Turn(advanced, nibble, <<>>, "stop")
                  ELSE IF r.val = None THEN Turn(advanced, nibble, <<>>, "stop")
                  ELSE Turn(Append(popped, TraceNode(r.val[1])), nibble, <<>>, "swap")
            IN Recovered(RecoverFromDb(sdb, now.node.hash))
       [] st = "Child" /\ kind = "Branch" ->
            Turn(Append(advanced, TraceNode(now.node.children[now.status.i + 1])),
                 (IF now.status.i = 0 THEN nibble
                  ELSE SubSeq(nibble, 1, Len(nibble) - 1)) \o <<now.status.i>>,
                 <<>>, "push")
       [] st # "End" /\ kind = "Empty" -> Turn(popped, nibble, <<>>, "pop")
       [] OTHER -> Turn(advanced, nibble, <<>>, "none")

\* one turn of the loop of TrieIterator::next on a stack that is not empty:
\* the stack and the nibble path afterwards, the pair the turn returns if
\* any, and what the turn did to the stack ("push", "pop", "swap" for a Hash
\* frame replaced by the node it names, "stop" for the return of None on an
\* error of recover_from_db, "none")
IterStep(sdb, nodes, nibble) ==
  LET now == nodes[Len(nodes)]
      popped == SubSeq(nodes, 1, Len(nodes) - 1)
      advanced == Append(popped, Advance(now))
      st == now.status.s
      kind == now.node.kind
      Turn(ns, nib, yield, event) ==
        [nodes |-> ns, nibble |-> nib, yield |-> yield, event |-> event]
  IN CASE st = "End" ->
            Turn(popped,
                 CASE kind = "Leaf" -> SubSeq(nibble, 1, Len(nibble) - Len(now.node.key))
                   [] kind = "Extension" ->
                        SubSeq(nibble, 1, Len(nibble) - Len(now.node.prefix))
                   [] kind = "Branch" -> SubSeq(nibble, 1, Len(nibble) - 1)
                   [] OTHER -> nibble,
                 <<>>, "pop")
       [] st = "Doing" /\ kind = "Extension" ->
            Turn(Append(advanced, TraceNode(now.node.node)), nibble \o now.node.prefix,
                 <<>>, "push")
       [] st = "Doing" /\ kind = "Leaf" ->
            Turn(advanced, nibble \o now.node.key,
                 << <<EncodeRawKey(nibble \o now.node.key), now.node.value>> >>, "none")
       [] st = "Doing" /\ kind = "Branch" ->
            Turn(advanced, nibble,
                 IF now.node.value # None
                 THEN << <<EncodeRawKey(nibble), now.node.value[1]>> >>
                 ELSE <<>>,
                 "none")
       [] st = "Doing" /\ kind = "Hash" ->
            LET Recovered(r) ==
                  IF ~r.ok THEN Turn(advanced, nibble, <<>>, "stop")
                  ELSE IF r.val = None THEN Turn(popped, nibble, <<>>, "pop")
                  ELSE Turn(Append(popped, TraceNode(r.val[1])), nibble, <<>>, "swap")
            IN Recovered(RecoverFromDb(sdb, now.node.hash))
       [] st = "Child" /\ kind = "Branch" ->
            Turn(Append(advanced, TraceNode(now.node.children[now.status.i + 1])),
                 (IF now.status.i = 0 THEN nibble
                  ELSE SubSeq(nibble, 1, Len(nibble) - 1)) \o <<now.status.i>>,
                 <<>>, "push")
       [] st # "End" /\ kind = "Empty" -> Turn(popped, nibble, <<>>, "pop")
       [] OTHER -> Turn(advanced, nibble, <<>>, "none")

\* the iteration runs for at most 2^MaxTurnsLog turns of the loop
MaxTurnsLog == 8

\* one turn of the loop on the state s of an iteration: the stack, the nibble
\* path at the push of each frame of the stack (marks), the nibble path, the
\* pairs yielded so far, whether every frame popped so far left the nibble
\* path as it was at the frame's push, and whether an error has ended the
\* iteration. An iteration that has ended stays as it is.
IterTurn(sdb, s) ==
  IF s.nodes = <<>> \/ s.error THEN s
  ELSE LET front == SubSeq(s.marks, 1, Len(s.marks) - 1)
           Stepped(t) ==
             IF t.event = "stop" THEN [s EXCEPT !.nodes = t.nodes, !.error = TRUE]
             ELSE [nodes |-> t.nodes,
                   marks |-> CASE t.event = "push" -> Append(s.marks, t.nibble)
                               [] t.event = "pop" -> front
                               [] t.event = "swap" -> Append(front, t.nibble)
                               [] OTHER -> s.marks,
                   nibble |-> t.nibble,
                   pairs |-> s.pairs \o t.yield,
                   restored |-> /\ s.restored
                                /\ t.event \in {"pop", "swap"}
                                     => t.nibble = s.marks[Len(s.marks)],
                   error |-> FALSE]
       IN Stepped(IterStep(sdb, s.nodes, s.nibble))

RECURSIVE IterTurns(_, _, _)
\* 2^k turns of the loop, or fewer when the iteration ends before
IterTurns(sdb, k, s) ==
  IF k = 0 THEN IterTurn(sdb, s)
  ELSE LET Half(m) == IF m.nodes = <<>> \/ m.error THEN m ELSE IterTurns(sdb, k - 1, m)
       IN Half(IterTurns(sdb, k - 1, s))

\* EthTrie::iter and TrieIterator::next, called until it returns None
IterAll(sdb, rt) ==
  IterTurns(sdb, MaxTurnsLog,
            [nodes |-> <<TraceNode(rt)>>, marks |-> <<FromRaw(<<>>, FALSE)>>,
             nibble |-> FromRaw(<<>>, FALSE), pairs |-> <<>>, restored |-> TRUE,
             error |-> FALSE])

(***************************************************************************)
(* Commit                                                                  *)
(***************************************************************************)
\* commit: the digest of the root, hashed whatever its length
RootHashOf(n) ==
  LET Hashed(e) == IF e.hashed THEN e.item.h ELSE Keccak(e.item)
  IN Hashed(EncodeNode(n))

\* commit, on a store whose batch calls succeed: the fields and the store
\* afterwards. The root that was just written is read back; the code panics
\* (expect) when it is gone.
Commit(db, rt, c, pk, gk) ==
  LET Recovered(h, cache1, removed_keys, db2, rec) ==
        [hash |-> h, db |-> db2, removed |-> removed_keys,
         written |-> DOMAIN cache1,
         calls |-> <<"insert_batch", "remove_batch">>,
         panic |-> rec.ok /\ rec.val = None,
         ok |-> rec.ok /\ rec.val # None,
         err |-> rec.err,
         root |-> IF rec.ok /\ rec.val # None THEN rec.val[1] ELSE rt]
      Removed(h, cache1, removed_keys, db2) ==
        Recovered(h, cache1, removed_keys, db2, RecoverFromDb(db2, h))
      Inserted(h, cache1, removed_keys, db1) ==
        Removed(h, cache1, removed_keys, [k \in (DOMAIN db1) \ removed_keys |-> db1[k]])
      Drained(e, h, cache1) ==
        Inserted(h, cache1, pk \ (gk \cup e.gen), PutAll(db, cache1))
      Hashed(e, h) ==
        Drained(e, h, IF e.hashed THEN PutAll(c, e.cache)
                      ELSE Put(PutAll(c, e.cache), h, e.item))
      Encoded(e) == Hashed(e, IF e.hashed THEN e.item.h ELSE Keccak(e.item))
  IN Encoded(EncodeNode(rt))

\* TrieError::DB
DBError == [e |-> "DB"]

\* the store calls of commit that can fail
StoreCalls == {"insert_batch", "remove_batch"}

\* a commit that issues remove_batch ahead of insert_batch
CommitFailingRemovesFirst(db, rt, c, pk, gk, fault) ==
  LET Drained(e, cache1) ==
        IF fault = "remove_batch"
        THEN [calls |-> <<"remove_batch">>, db |-> db, gen_keys |-> gk \cup e.gen,
              err |-> DBError]
        ELSE [calls |-> <<"remove_batch", "insert_batch">>,
              db |-> [k \in (DOMAIN db) \ (pk \ (gk \cup e.gen)) |-> db[k]],
              gen_keys |-> gk \cup e.gen, err |-> DBError]
      Hashed(e, h) ==
        Drained(e, IF e.hashed THEN PutAll(c, e.cache)
                   ELSE Put(PutAll(c, e.cache), h, e.item))
      Encoded(e) == Hashed(e, IF e.hashed THEN e.item.h ELSE Keccak(e.item))
  IN Encoded(EncodeNode(rt))

\* commit, on a store whose call `fault` fails and leaves the store as it was:
\* the store calls issued, the store and gen_keys afterwards. The `?` after
\* the failed call returns before any later statement of commit runs.
CommitFailing(db, rt, c, pk, gk, fault) ==
  LET Drained(e, cache1) ==
        IF fault = "insert_batch"
        THEN [calls |-> <<"insert_batch">>, db |-> db, gen_keys |-> gk \cup e.gen,
              err |-> DBError]
        ELSE [calls |-> <<"insert_batch", "remove_batch">>, db |-> PutAll(db, cache1),
              gen_keys |-> gk \cup e.gen, err |-> DBError]
      Hashed(e, h) ==
        Drained(e, IF e.hashed THEN PutAll(c, e.cache)
                   ELSE Put(PutAll(c, e.cache), h, e.item))
      Encoded(e) == Hashed(e, IF e.hashed THEN e.item.h ELSE Keccak(e.item))
  IN Encoded(EncodeNode(rt))

(***************************************************************************)
(* The trie as a state machine                                             *)
(***************************************************************************)
\* the number of public calls a run makes
MaxOps == 4

\* the keys the callers use: the empty key, keys that share nibbles, a key
\* that extends another
KeySeq == << <<>>, <<0>>, <<1>>, <<16>>, <<0, 1>> >>
Keys == {KeySeq[i] : i \in 1..Len(KeySeq)}

\* the values: one that keeps a leaf inline, one that makes its encoding 32
\* bytes or more
ShortValue == <<1>>
LongValue == Tuple([i \in 1..HASHED_LENGTH |-> 2])
Values == {ShortValue, LongValue}

\* the values handed to insert: the empty value asks for a removal
InsertValues == Values \cup {<<>>}

VARIABLES
  root,          \* EthTrie.root
  root_hash,     \* EthTrie.root_hash
  db,            \* the store behind EthTrie.db (a MemoryDB that deletes)
  cache,         \* EthTrie.cache
  passing_keys,  \* EthTrie.passing_keys
  gen_keys,      \* EthTrie.gen_keys
  lost,          \* the entries that somebody else has removed from the store
  plain,         \* only insert, remove and commit have been called, on a store
                 \* that nobody else has modified
  live,          \* history: the value each key should have, from the calls made
  hist,          \* history: "ins" only inserts on the new trie so far, "insc"
                 \* those inserts and then one commit, "any" otherwise
  phase,         \* history: "ins" no remove so far; "rem1" inserts, then one
                 \* remove of a present key; "rems" inserts, then several such
                 \* removes; "other" otherwise (commits and loads do not count)
  sync,          \* history: "new", "dirty" (insert or remove since the last
                 \* commit), "commit", "reload", "panicked"
  last,          \* history: the last call, its arguments and what it returned
  nops           \* history: the number of calls made

vars ==
  <<root, root_hash, db, cache, passing_keys, gen_keys, lost, plain, live, hist, phase, sync,
    last, nops>>

\* EthTrie::new on an empty store
Init ==
  /\ root = EmptyNode
  /\ root_hash = Keccak(NULL_RLP)
  /\ db = EmptyMap
  /\ cache = EmptyMap
  /\ passing_keys = {}
  /\ gen_keys = {}
  /\ lost = EmptyMap
  /\ plain = TRUE
  /\ live = [k \in Keys |-> None]
  /\ hist = "ins"
  /\ phase = "ins"
  /\ sync = "new"
  /\ last = [op |-> "new"]
  /\ nops = 0

CanCall == nops < MaxOps /\ sync # "panicked"

\* a remove that stores the hash of the tree it leaves in root_hash
RemoveStepRehashes(key, op) ==
  LET Deleted(r) ==
        /\ root' = r.node
        /\ root_hash' = RootHashOf(r.node)
        /\ passing_keys' = passing_keys \cup r.pk
        /\ live' = IF r.ok THEN [live EXCEPT ![key] = None] ELSE live
        /\ hist' = "any"
        /\ phase' = IF op = "remove" /\ r.ok /\ live[key] # None
                       /\ phase \in {"ins", "rem1", "rems"}
                    THEN (IF phase = "ins" THEN "rem1" ELSE "rems")
                    ELSE "other"
        /\ sync' = "dirty"
        /\ last' = [op |-> op, key |-> key, prev |-> live[key],
                    ret |-> IF r.ok THEN Ok(IF op = "remove" THEN r.deleted ELSE TRUE)
                            ELSE Err(WithErrKey(r.err, key))]
        /\ UNCHANGED <<db, cache, gen_keys, lost, plain>>
  IN Deleted(DeleteAt(db, root_hash, root, FromRaw(key, TRUE), 0))

\* Trie::remove, as a step of the trie. A failed call has assigned into the
\* cells of the tree already, and root is the handle to them.
RemoveStep(key, op) ==
  LET Deleted(r) ==
        /\ root' = r.node
        /\ passing_keys' = passing_keys \cup r.pk
        /\ live' = IF r.ok THEN [live EXCEPT ![key] = None] ELSE live
        /\ hist' = "any"
        /\ phase' = IF op = "remove" /\ r.ok /\ live[key] # None
                       /\ phase \in {"ins", "rem1", "rems"}
                    THEN (IF phase = "ins" THEN "rem1" ELSE "rems")
                    ELSE "other"
        /\ sync' = "dirty"
        /\ last' = [op |-> op, key |-> key, prev |-> live[key],
                    ret |-> IF r.ok THEN Ok(IF op = "remove" THEN r.deleted ELSE TRUE)
                            ELSE Err(WithErrKey(r.err, key))]
        /\ UNCHANGED <<root_hash, db, cache, gen_keys, lost, plain>>
  IN Deleted(DeleteAt(db, root_hash, root, FromRaw(key, TRUE), 0))

\* an insert that stores the empty value like any other
InsertStoresEmpty(key, value) ==
  LET Inserted(r) ==
        /\ root' = IF r.ok THEN r.node ELSE root
        /\ passing_keys' = passing_keys \cup r.pk
        /\ live' = IF r.ok THEN [live EXCEPT ![key] = IF value = <<>> THEN None ELSE Some(value)]
                   ELSE live
        /\ hist' = IF hist = "ins" /\ r.ok /\ value # <<>> THEN "ins" ELSE "any"
        /\ phase' = IF phase = "ins" /\ r.ok /\ value # <<>> THEN "ins" ELSE "other"
        /\ sync' = "dirty"
        /\ last' = [op |-> "insert", key |-> key, value |-> value, prev |-> live[key],
                    ret |-> IF r.ok THEN Ok(TRUE) ELSE Err(WithErrKey(r.err, key))]
        /\ UNCHANGED <<root_hash, db, cache, gen_keys, lost, plain>>
  IN /\ CanCall
     /\ nops' = nops + 1
     /\ Inserted(InsertAt(db, root_hash, root, FromRaw(key, TRUE), 0, value))

\* Trie::insert
Insert(key, value) ==
  LET Inserted(r) ==
        /\ root' = IF r.ok THEN r.node ELSE root
        /\ passing_keys' = passing_keys \cup r.pk
        /\ live' = IF r.ok THEN [live EXCEPT ![key] = Some(value)] ELSE live
        /\ hist' = IF hist = "ins" /\ r.ok THEN "ins" ELSE "any"
        /\ phase' = IF phase = "ins" /\ r.ok THEN "ins" ELSE "other"
        /\ sync' = "dirty"
        /\ last' = [op |-> "insert", key |-> key, value |-> value, prev |-> live[key],
                    ret |-> IF r.ok THEN Ok(TRUE) ELSE Err(WithErrKey(r.err, key))]
        /\ UNCHANGED <<root_hash, db, cache, gen_keys, lost, plain>>
  IN /\ CanCall
     /\ nops' = nops + 1
     /\ IF value = <<>> THEN RemoveStep(key, "insert")
        ELSE Inserted(InsertAt(db, root_hash, root, FromRaw(key, TRUE), 0, value))

\* Trie::remove
Remove(key) ==
  /\ CanCall
  /\ nops' = nops + 1
  /\ RemoveStep(key, "remove")

\* Trie::get_proof
GetProofCall(key) ==
  LET Proved(p) ==
        /\ cache' = PutAll(cache, p.cache)
        /\ gen_keys' = gen_keys \cup p.gen
        /\ last' = [op |-> "get_proof", key |-> key,
                    ret |-> [ok |-> p.ok, val |-> p.val, err |-> p.err]]
  IN /\ CanCall
     /\ nops' = nops + 1
     /\ Proved(GetProof(db, root_hash, root, key))
     /\ plain' = FALSE
     /\ UNCHANGED <<root, root_hash, db, passing_keys, lost, live, hist, phase, sync>>

\* a commit that does not store the new root hash
RootHashKeepsOldHash ==
  LET Committed(c) ==
        /\ db' = c.db
        /\ cache' = EmptyMap
        /\ root_hash' = root_hash
        /\ gen_keys' = {}
        /\ passing_keys' = {}
        /\ root' = c.root
        /\ sync' = IF c.panic THEN "panicked" ELSE "commit"
        /\ hist' = IF hist = "ins" /\ c.ok THEN "insc" ELSE "any"
        /\ last' = [op |-> "commit", clean |-> sync = "commit", before |-> root_hash,
                    removed |-> c.removed, after |-> last, calls |-> c.calls,
                    ret |-> IF c.ok THEN Ok(c.hash) ELSE Err(c.err)]
  IN /\ CanCall
     /\ nops' = nops + 1
     /\ Committed(Commit(db, root, cache, passing_keys, gen_keys))
     /\ UNCHANGED <<lost, plain, live, phase>>

\* Trie::root_hash, which is commit
RootHash ==
  LET Committed(c) ==
        /\ db' = c.db
        /\ cache' = EmptyMap
        /\ root_hash' = c.hash
        /\ gen_keys' = {}
        /\ passing_keys' = {}
        /\ root' = c.root
        /\ sync' = IF c.panic THEN "panicked" ELSE "commit"
        /\ hist' = IF hist = "ins" /\ c.ok THEN "insc" ELSE "any"
        /\ last' = [op |-> "commit", clean |-> sync = "commit", before |-> root_hash,
                    removed |-> c.removed, after |-> last, calls |-> c.calls,
                    ret |-> IF c.ok THEN Ok(c.hash) ELSE Err(c.err)]
  IN /\ CanCall
     /\ nops' = nops + 1
     /\ Committed(Commit(db, root, cache, passing_keys, gen_keys))
     /\ UNCHANGED <<lost, plain, live, phase>>

\* EthTrie::from on the store, at the root hash of the last commit, when the
\* trie holds no uncommitted change: the trie is replaced by the loaded one
Reload ==
  LET Loaded(t) ==
        /\ IF t.ok
           THEN /\ root' = t.val.root
                /\ cache' = t.val.cache
                /\ passing_keys' = t.val.passing_keys
                /\ gen_keys' = t.val.gen_keys
                /\ sync' = "reload"
           ELSE UNCHANGED <<root, cache, passing_keys, gen_keys, sync>>
        /\ last' = [op |-> "from", ret |-> IF t.ok THEN Ok(TRUE) ELSE Err(t.err)]
  IN /\ CanCall
     /\ sync \in {"new", "commit", "reload"}
     /\ nops' = nops + 1
     /\ Loaded(From(db, root_hash))
     /\ hist' = "any"
     /\ plain' = FALSE
     /\ UNCHANGED <<root_hash, db, lost, live, phase>>

Next ==
  \/ \E key \in Keys, value \in InsertValues : Insert(key, value)
  \/ \E key \in Keys : Remove(key)
  \/ \E key \in Keys : GetProofCall(key)
  \/ RootHash
  \/ Reload

Spec == Init /\ [][Next]_vars

\* the longest proof handed to verify_proof
MaxProofLen == 2

\* a proof element that is no node: a list of three items
Malformed == RlpList(<<RlpData(LongValue), RlpData(LongValue), RlpData(LongValue)>>)

\* a node that is in no store and in no proof
AbsentNode == FromLeaf(<<1, 16>>, LongValue)

\* the encoding of a forged root: a Branch that names the malformed element
\* as its child 0 and the absent node as its child 1
ForgedRoot ==
  EncodeRaw(FromBranch([EmptyChildren EXCEPT ![1] = FromHash(Keccak(Malformed)),
                                             ![2] = FromHash(Keccak(EncodeRaw(AbsentNode).data))],
                       None)).data

\* the proof elements drawn on: the entries of the store and the two forged ones
ProofElems == {db[d] : d \in DOMAIN db} \cup {Malformed, ForgedRoot}

\* the proofs handed to verify_proof
Proofs == UNION {[1..n -> ProofElems] : n \in 0..MaxProofLen}

\* the root hashes handed to verify_proof
ProofRoots == {root_hash, Keccak(Malformed), Keccak(ForgedRoot)}

\* Trie::verify_proof, called on the trie after a commit with a root hash, a
\* key and a proof of the caller's choice
VerifyProofCall(h, key, proof) ==
  /\ CanCall
  /\ sync = "commit"
  /\ nops' = nops + 1
  /\ last' = [op |-> "verify_proof", ret |-> VerifyProof(h, key, proof)]
  /\ UNCHANGED <<root, root_hash, db, cache, passing_keys, gen_keys, lost, plain, live, hist,
                 phase, sync>>

NextVerify ==
  \/ Next
  \/ \E h \in ProofRoots, key \in Keys, proof \in Proofs : VerifyProofCall(h, key, proof)

\* the trie with callers that verify proofs on it
SpecVerify == Init /\ [][NextVerify]_vars

\* somebody else removes one entry from the store of a trie that holds no
\* uncommitted change (the tests' corrupt_trie); it happens once
Corrupt(d) ==
  /\ sync \in {"commit", "reload"}
  /\ lost = EmptyMap
  /\ d \in DOMAIN db
  /\ db' = [k \in (DOMAIN db) \ {d} |-> db[k]]
  /\ lost' = (d :> db[d])
  /\ plain' = FALSE
  /\ UNCHANGED <<root, root_hash, cache, passing_keys, gen_keys, live, hist, phase, sync,
                 last, nops>>

NextCorrupt ==
  \/ Next
  \/ \E d \in DOMAIN db : Corrupt(d)

\* the trie over a store that somebody else corrupts
SpecCorrupt == Init /\ [][NextCorrupt]_vars

\* Trie::root_hash on a store whose call `fault` fails: cache has been
\* drained by then, and no field is assigned after the failed call. A failing
\* commit may also come as one call more after the MaxOps calls of a run.
RootHashFailing(fault) ==
  LET Failed(c) ==
        /\ db' = c.db
        /\ cache' = EmptyMap
        /\ gen_keys' = c.gen_keys
        /\ last' = [op |-> "commit", clean |-> sync = "commit", before |-> root_hash,
                    removed |-> {}, after |-> last, calls |-> c.calls, fault |-> fault,
                    ret |-> Err(c.err)]
  IN /\ nops <= MaxOps
     /\ sync # "panicked"
     /\ nops' = nops + 1
     /\ Failed(CommitFailing(db, root, cache, passing_keys, gen_keys, fault))
     /\ hist' = "any"
     /\ plain' = FALSE
     /\ UNCHANGED <<root, root_hash, passing_keys, lost, live, phase, sync>>

NextFailing ==
  \/ Next
  \/ \E fault \in StoreCalls : RootHashFailing(fault)

\* the trie over a store whose batch calls may fail
SpecFailing == Init /\ [][NextFailing]_vars

\* Trie::contains: the error of get_at is passed on as it is
Contains(sdb, rh, rt, key) ==
  LET Result(r) == IF r.ok THEN Ok(r.val # None) ELSE r
  IN Result(GetAt(sdb, rh, rt, FromRaw(key, TRUE), 0))

\* Trie::get, as a call on the trie
GetCall(key) ==
  /\ CanCall
  /\ nops' = nops + 1
  /\ last' = [op |-> "get", key |-> key, ret |-> Get(db, root_hash, root, key)]
  /\ plain' = FALSE
  /\ UNCHANGED <<root, root_hash, db, cache, passing_keys, gen_keys, lost, live, hist, phase,
                 sync>>

\* Trie::contains, as a call on the trie
ContainsCall(key) ==
  /\ CanCall
  /\ nops' = nops + 1
  /\ last' = [op |-> "contains", key |-> key, ret |-> Contains(db, root_hash, root, key)]
  /\ plain' = FALSE
  /\ UNCHANGED <<root, root_hash, db, cache, passing_keys, gen_keys, lost, live, hist, phase,
                 sync>>

\* EthTrie::iter, with the iterator run until it returns None
IterCall ==
  /\ CanCall
  /\ nops' = nops + 1
  /\ last' = [op |-> "iter", ret |-> Ok(Iter(db, root))]
  /\ plain' = FALSE
  /\ UNCHANGED <<root, root_hash, db, cache, passing_keys, gen_keys, lost, live, hist, phase,
                 sync>>

NextRead ==
  \/ Next
  \/ \E key \in Keys : GetCall(key)
  \/ \E key \in Keys : ContainsCall(key)
  \/ IterCall

\* the trie with callers that read it as well
SpecRead == Init /\ [][NextRead]_vars

\* the digests whose entry in the store is no longer the one the trie wrote
Garbled == {d \in (DOMAIN lost) \cap (DOMAIN db) : db[d] # lost[d]}

\* somebody else overwrites one entry of the store with bytes that are no
\* node, so that recover_from_db returns an error for it; it happens once
Garble(d) ==
  /\ sync \in {"commit", "reload"}
  /\ Garbled = {}
  /\ d \in (DOMAIN db) \ (DOMAIN lost)
  /\ db[d] # Malformed
  /\ db' = [db EXCEPT ![d] = Malformed]
  /\ lost' = Put(lost, d, db[d])
  /\ plain' = FALSE
  /\ UNCHANGED <<root, root_hash, cache, passing_keys, gen_keys, live, hist, phase, sync,
                 last, nops>>

NextBroken ==
  \/ Next
  \/ \E d \in DOMAIN db : Corrupt(d)
  \/ \E d \in DOMAIN db : Garble(d)

\* the trie over a store that somebody else corrupts, by removing an entry
\* and by overwriting one
SpecBroken == Init /\ [][NextBroken]_vars

(***************************************************************************)
(* Properties                                                              *)
(***************************************************************************)
\* Trie::get on the trie of the current state
GetNow(k) == Get(db, root_hash, root, k)

\* the tree a new trie holds after inserting the pairs of m, in the order of KeySeq
RefTrie(m) ==
  LET f[i \in 0..Len(KeySeq)] ==
        IF i = 0 THEN EmptyNode
        ELSE IF m[KeySeq[i]] = None THEN f[i - 1]
        ELSE InsertAt(EmptyMap, Keccak(NULL_RLP), f[i - 1], FromRaw(KeySeq[i], TRUE), 0,
                      m[KeySeq[i]][1]).node
  IN f[Len(KeySeq)]

\* the hash the next commit returns
NextCommit == Commit(db, root, cache, passing_keys, gen_keys)

StrictPrefix(a, b) == Len(a) < Len(b) /\ SubSeq(b, 1, Len(a)) = a

\* C1: after only inserts of non-empty values on a new trie, with no commit,
\* get returns for every key the value of the last insert for it, and None for
\* a key never inserted
C1_RoundTrip == hist = "ins" => \A k \in Keys : GetNow(k) = Ok(live[k])

\* an insert has overwritten a key, while a strict prefix and a strict
\* extension of an inserted key were never inserted
C1_Witness ==
  /\ hist = "ins" /\ last.op = "insert"
  /\ last.prev # None /\ last.prev # Some(last.value)
  /\ \E k, p, x \in Keys :
       /\ live[k] # None /\ live[p] = None /\ live[x] = None
       /\ StrictPrefix(p, k) /\ StrictPrefix(k, x)

\* C2: on a trie that was never committed, remove of a key that get finds
\* returns true, get of that key is None afterwards, and get of every other
\* key returns what it returned before; a remove that has just been called on
\* a present key has returned true and the key is gone
C2_RemovePresent ==
  db = EmptyMap =>
    /\ (last.op = "remove" /\ last.prev # None) =>
         (last.ret = Ok(TRUE) /\ GetNow(last.key) = Ok(None))
    /\ \A k \in Keys :
         GetNow(k).val # None =>
           LET Deleted(r) ==
                 /\ r.ok /\ r.deleted
                 /\ Get(db, root_hash, r.node, k) = Ok(None)
                 /\ \A o \in Keys \ {k} : Get(db, root_hash, r.node, o) = GetNow(o)
           IN Deleted(DeleteAt(db, root_hash, root, FromRaw(k, TRUE), 0))

\* a remove of a present key has just returned true on a never committed
\* trie, and other keys are still there to be removed
C2_Witness ==
  /\ db = EmptyMap /\ last.op = "remove" /\ last.prev # None /\ last.ret = Ok(TRUE)
  /\ Cardinality({k \in Keys : GetNow(k).val # None}) >= 2

\* C3: remove of a key that get does not find returns false and leaves the
\* hash the next commit returns as it was, also when the key ends at a Branch
\* that has no value
C3_DeleteAbsent ==
  \A k \in Keys :
    GetNow(k) = Ok(None) =>
      LET Deleted(r) ==
            /\ r.ok /\ ~r.deleted
            /\ RootHashOf(r.node) = RootHashOf(root)
      IN Deleted(DeleteAt(db, root_hash, root, FromRaw(k, TRUE), 0))

\* C4: two new tries that receive the same final pairs by inserts, in any
\* order and with keys repeated, commit to the same root hash: the one of the
\* trie that receives the pairs once, in the order of KeySeq
C4_PathIndependence == hist = "insc" => root_hash = RootHashOf(RefTrie(live))

\* three keys were inserted, the first key of KeySeq last, and the trie
\* was committed
C4_Witness ==
  /\ hist = "insc" /\ last.op = "commit" /\ last.ret.ok
  /\ last.after.op = "insert" /\ last.after.key = KeySeq[1] /\ last.after.prev = None
  /\ Cardinality({k \in Keys : live[k] # None}) = 3

\* C5: inserts, then one remove of a key that is present: the next commit
\* returns the root hash of the trie that holds the other pairs only, whatever
\* the removed key, with or without a commit or a load before the remove
C5_InsertRemove == phase = "rem1" => NextCommit.hash = RootHashOf(RefTrie(live))

\* C6: inserts, then removes of every inserted key: the next commit returns
\* the hash of the encoding of the empty node, and the store then holds that
\* encoding at that hash
C6_EmptyRoot ==
  (phase \in {"rem1", "rems"} /\ \A k \in Keys : live[k] = None) =>
    LET Committed(c) ==
          /\ c.hash = Keccak(NULL_RLP)
          /\ Keccak(NULL_RLP) \in DOMAIN c.db
          /\ c.db[Keccak(NULL_RLP)] = NULL_RLP
    IN Committed(NextCommit)

C8_Reload ==
  [][(Reload /\ sync = "commit") =>
       /\ last'.ret = Ok(TRUE)
       /\ \A k \in Keys : Get(db', root_hash', root', k) = GetNow(k)
       /\ Commit(db', root', cache', passing_keys', gen_keys').hash = root_hash]_vars

\* a trie with keys behind Hash nodes was committed and loaded
C8_Witness ==
  /\ last.op = "from" /\ last.ret.ok /\ sync = "reload"
  /\ root.kind = "Branch"
  /\ \E i \in 1..16 : root.children[i].kind = "Hash"
  /\ \E k \in Keys : GetNow(k).val # None

\* C9: on a committed trie with root hash r, for a key k that get finds with
\* value v, verify_proof(r, k, get_proof(k)) is Some(v)
C9_ProofSound ==
  (last.op = "get_proof" /\ sync \in {"commit", "reload"} /\ GetNow(last.key).val # None) =>
    /\ last.ret.ok
    /\ VerifyProof(root_hash, last.key, last.ret.val) = Ok(GetNow(last.key).val)

\* get_proof has returned a proof of two nodes or more for a present key
C9_Witness ==
  /\ last.op = "get_proof" /\ sync = "commit" /\ GetNow(last.key).val # None
  /\ last.ret.ok /\ Len(last.ret.val) >= 2

\* C10: on a committed trie with root hash r, the empty trie included, for a
\* key k that get does not find, get_proof(k) returns at least the root node
\* and verify_proof(r, k, get_proof(k)) is None without an error
C10_ProofAbsent ==
  (last.op = "get_proof" /\ sync \in {"commit", "reload"} /\ GetNow(last.key) = Ok(None)) =>
    /\ last.ret.ok
    /\ Len(last.ret.val) >= 1
    /\ VerifyProof(root_hash, last.key, last.ret.val) = Ok(None)


(***************************************************************************)
(* A corrupted store (SpecCorrupt)                                         *)
(***************************************************************************)
\* the digests whose entry is missing from the store
Gone == (DOMAIN lost) \ (DOMAIN db)

\* the store with the lost entries put back
Intact == PutAll(db, lost)

RECURSIVE Loads(_, _, _, _)
\* the digests that the descent of get_at and get_path_at recovers from the
\* store sdb on the way along path
Loads(sdb, n, path, path_index) ==
  LET partial == Offset(path, path_index) IN
  CASE n.kind \in {"Empty", "Leaf"} -> {}
    [] n.kind = "Branch" ->
         IF partial = <<>> \/ At(partial, 0) = 16 THEN {}
         ELSE Loads(sdb, n.children[At(partial, 0) + 1], path, path_index + 1)
    [] n.kind = "Extension" ->
         LET match_len == CommonPrefix(partial, n.prefix) IN
         IF match_len = Len(n.prefix)
         THEN Loads(sdb, n.node, path, path_index + match_len)
         ELSE {}
    [] n.kind = "Hash" ->
         LET Recovered(r) ==
               IF ~r.ok \/ r.val = None THEN {n.hash}
               ELSE {n.hash} \cup Loads(sdb, r.val[1], path, path_index)
         IN Recovered(RecoverFromDb(sdb, n.hash))

\* r is the failure MissingTrieNode that names the digest d, the committed
\* root hash and the key k
MissingFor(r, d, k) ==
  /\ ~r.ok
  /\ r.err.e = "MissingTrieNode"
  /\ r.err.node_hash = d
  /\ r.err.root_hash = Some(root_hash)
  /\ r.err.err_key = Some(k)

C11_Get ==
  \A d \in Gone : \A k \in Keys :
    d \in Loads(Intact, root, FromRaw(k, TRUE), 0)
      => MissingFor(Get(db, root_hash, root, k), d, k)

C11_Step ==
  \A d \in Gone : \A k \in Keys :
    /\ (/\ last'.op = "get_proof" /\ last'.key = k /\ nops' = nops + 1
        /\ d \in Loads(Intact, root, FromRaw(k, TRUE), 0)
        /\ GetProofCall(k))
         => MissingFor(last'.ret, d, k)
    /\ (/\ last'.op = "remove" /\ last'.key = k /\ nops' = nops + 1
        /\ d \in DeleteAt(Intact, root_hash, root, FromRaw(k, TRUE), 0).pk
        /\ Remove(k))
         => MissingFor(last'.ret, d, k)
    /\ \A v \in Values :
         (/\ last'.op = "insert" /\ last'.key = k /\ nops' = nops + 1
          /\ d \in InsertAt(Intact, root_hash, root, FromRaw(k, TRUE), 0, v).pk
          /\ Insert(k, v))
           => MissingFor(last'.ret, d, k)

\* C11: once the entry of a committed node's digest d is gone from the
\* store, every get, insert, remove and get_proof whose traversal has to
\* load d fails with MissingTrieNode naming d as node_hash, the last
\* committed root hash as root_hash and the key passed as err_key
C11_CorruptDetected == []C11_Get /\ [][C11_Step]_vars

\* an insert has just failed on the digest that is gone
C11_Witness ==
  /\ Gone # {}
  /\ last.op = "insert"
  /\ ~last.ret.ok
  /\ last.ret.err.e = "MissingTrieNode"
  /\ last.ret.err.node_hash \in Gone
  /\ \E k \in Keys : ~Get(db, root_hash, root, k).ok

RECURSIVE LoadsAt(_, _, _, _)
\* the digests that the descent along path recovers from the store sdb, each
\* with the number of nibbles of path consumed when it is met
LoadsAt(sdb, n, path, path_index) ==
  LET partial == Offset(path, path_index) IN
  CASE n.kind \in {"Empty", "Leaf"} -> {}
    [] n.kind = "Branch" ->
         IF partial = <<>> \/ At(partial, 0) = 16 THEN {}
         ELSE LoadsAt(sdb, n.children[At(partial, 0) + 1], path, path_index + 1)
    [] n.kind = "Extension" ->
         LET match_len == CommonPrefix(partial, n.prefix) IN
         IF match_len = Len(n.prefix)
         THEN LoadsAt(sdb, n.node, path, path_index + match_len)
         ELSE {}
    [] n.kind = "Hash" ->
         LET Recovered(r) ==
               IF ~r.ok \/ r.val = None THEN {<<n.hash, path_index>>}
               ELSE {<<n.hash, path_index>>} \cup LoadsAt(sdb, r.val[1], path, path_index)
         IN Recovered(RecoverFromDb(sdb, n.hash))

\* the path consumed up to each missing node that the descent for key k meets
ConsumedTo(k) ==
  {Slice(FromRaw(k, TRUE), 0, m[2]) :
     m \in {x \in LoadsAt(Intact, root, FromRaw(k, TRUE), 0) : x[1] \in Gone}}

\* r is a MissingTrieNode failure whose traversed field is t
TraversedIs(r, t) == ~r.ok /\ r.err.e = "MissingTrieNode" /\ r.err.traversed = t

\* get, insert and remove report the path consumed up to a missing node that
\* the descent meets; remove reports None when degenerate meets it
C12_GetTraversed ==
  Gone # {} =>
    \A k \in Keys : \A t \in ConsumedTo(k) :
      TraversedIs(Get(db, root_hash, root, k), Some(t))

\* the step is a call of op with key k (a cheap test ahead of the action)
Called(op, k) == last'.op = op /\ last'.key = k /\ nops' = nops + 1

C12_StepTraversed ==
  \A k \in IF Gone # {} THEN Keys ELSE {} :
    /\ \A t \in ConsumedTo(k) :
         /\ (Called("remove", k) /\ Remove(k)) => TraversedIs(last'.ret, Some(t))
         /\ \A v \in Values :
              (Called("insert", k) /\ Insert(k, v)) => TraversedIs(last'.ret, Some(t))
    /\ (/\ Called("remove", k)
        /\ ConsumedTo(k) = {}
        /\ DeleteAt(Intact, root_hash, root, FromRaw(k, TRUE), 0).pk \cap Gone # {}
        /\ Remove(k))
         => TraversedIs(last'.ret, None)

\* a get_proof step for a key whose descent meets a missing node reports the
\* path consumed
C12_ProofStepPath ==
  \A k \in IF Gone # {} THEN Keys ELSE {} : \A t \in ConsumedTo(k) :
    (Called("get_proof", k) /\ GetProofCall(k)) => TraversedIs(last'.ret, Some(t))

\* a get_proof step for a key whose descent meets a missing node reports None
C12_ProofStepNone ==
  \A k \in IF Gone # {} THEN Keys ELSE {} : \A t \in ConsumedTo(k) :
    (Called("get_proof", k) /\ GetProofCall(k)) => TraversedIs(last'.ret, None)

\* C12 as stated: in a MissingTrieNode error of get, insert, remove or
\* get_proof, traversed is the path consumed up to the missing node, and None
\* only when degenerate hit the missing node
C12_TraversedAsStated ==
  []C12_GetTraversed /\ [][C12_StepTraversed /\ C12_ProofStepPath]_vars

\* C12, amended: in a MissingTrieNode error of get, insert or remove,
\* traversed is the path consumed up to the missing node, and None when
\* degenerate hit the missing node; in a MissingTrieNode error of get_proof
\* traversed is always None
C12_Traversed ==
  []C12_GetTraversed /\ [][C12_StepTraversed /\ C12_ProofStepNone]_vars

\* get_proof has just failed on a missing node below the root and reports no
\* path
C12_Witness ==
  /\ Gone # {}
  /\ last.op = "get_proof"
  /\ ConsumedTo(last.key) # {}
  /\ TraversedIs(last.ret, None)

(***************************************************************************)
(* Iteration and the shape of the tree                                     *)
(***************************************************************************)
RECURSIVE Subtree(_, _)
\* the nodes of the tree below n, n included; a Hash node is followed into
\* the store sdb when its entry is there
Subtree(sdb, n) ==
  {n} \cup
  CASE n.kind = "Branch" -> UNION {Subtree(sdb, n.children[i]) : i \in 1..16}
    [] n.kind = "Extension" -> Subtree(sdb, n.node)
    [] n.kind = "Hash" ->
         LET Recovered(r) ==
               IF r.ok /\ r.val # None THEN Subtree(sdb, r.val[1]) ELSE {}
         IN Recovered(RecoverFromDb(sdb, n.hash))
    [] OTHER -> {}

\* every Hash node reachable from the root has its entry in the store
StoreIntact ==
  \A n \in Subtree(db, root) : n.kind = "Hash" => n.hash \in DOMAIN db

\* byte strings in lexicographic order, a prefix first
BytesLess(a, b) ==
  \/ StrictPrefix(a, b)
  \/ \E i \in 1..Len(a) :
       /\ i <= Len(b)
       /\ SubSeq(a, 1, i - 1) = SubSeq(b, 1, i - 1)
       /\ a[i] < b[i]

RECURSIVE Ascending(_)
\* the keys of S in ascending order
Ascending(S) ==
  IF S = {} THEN <<>>
  ELSE LET Least(m) == <<m>> \o Ascending(S \ {m})
       IN Least(CHOOSE k \in S : \A j \in S \ {k} : BytesLess(k, j))

\* the live pairs in ascending order of their keys
LivePairs ==
  LET Paired(ks) == Tuple([i \in 1..Len(ks) |-> <<ks[i], live[ks[i]][1]>>])
  IN Paired(Ascending({k \in Keys : live[k] # None}))

\* C13: over an intact store iter() yields the live (key, value) pairs, each
\* once and nothing else, in ascending byte order of the keys, a key that is
\* a prefix of another first
C13_IterComplete == StoreIntact => Iter(db, root) = LivePairs

\* a committed trie, reloaded or changed since, with a key and a key it is a
\* prefix of among at least three live keys
C13_Witness ==
  /\ StoreIntact
  /\ \E n \in Subtree(db, root) : n.kind = "Hash"
  /\ Len(Iter(db, root)) >= 3
  /\ live[<<0>>] # None /\ live[<<0, 1>>] # None

(***************************************************************************)
(* verify_proof (SpecVerify)                                               *)
(***************************************************************************)
\* the digests verify_proof has to resolve for key from the store pdb it
\* built: the root hash and the Hash nodes on the path of the key
Needed(pdb, h, key) ==
  LET Rooted(t) ==
        IF t.ok THEN {h} \cup Loads(pdb, t.val.root, FromRaw(key, TRUE), 0) ELSE {h}
  IN Rooted(From(pdb, h))

\* a digest verify_proof has to resolve is not in the proof, or what the proof
\* holds for it does not decode
Unusable(pdb, h, key) ==
  \E d \in Needed(pdb, h, key) : d \notin DOMAIN pdb \/ ~DecodeNode(pdb[d]).ok

\* the result of verify_proof is Err(InvalidProof) when a needed element is
\* missing or does not decode, else Ok; an Ok on a proof made of store entries
\* for the committed root agrees with get on the committed trie
C14_Cases ==
  (last.op = "commit" /\ last.ret.ok) =>
    \A h \in ProofRoots : \A key \in Keys : \A proof \in Proofs :
      LET Verified(r, pdb) ==
            /\ r.ok \/ r = Err(InvalidProof)
            /\ r.ok <=> ~Unusable(pdb, h, key)
            /\ (/\ r.ok
                /\ h = root_hash
                /\ \A i \in 1..Len(proof) : proof[i] \notin {Malformed, ForgedRoot})
                 => r = GetNow(key)
      IN Verified(VerifyProof(h, key, proof), ProofDb(h, proof))

\* a verify_proof step leaves the trie and its store as they were
C14_Frame ==
  (last'.op = "verify_proof" /\ nops' # nops)
    => UNCHANGED <<root, root_hash, db, cache, passing_keys, gen_keys>>

NoEmptyValue ==
  \A n \in Subtree(db, root) :
    /\ n.kind = "Leaf" => n.value # <<>>
    /\ n.kind = "Branch" => n.value # Some(<<>>)

\* an insert of the empty value leaves the trie as remove of the key does and
\* returns Ok exactly when remove succeeds
C15_InsertEmptyStep ==
  \A k \in Keys :
    (last'.op = "insert" /\ last'.key = k /\ nops' = nops + 1 /\ Insert(k, <<>>)) =>
      LET Removed(r) ==
            /\ root' = r.node
            /\ passing_keys' = passing_keys \cup r.pk
            /\ UNCHANGED <<root_hash, db, cache, gen_keys>>
            /\ last'.ret.ok <=> r.ok
            /\ ~r.ok => last'.ret = Err(WithErrKey(r.err, k))
            /\ r.ok => \A j \in Keys :
                 Get(db, root_hash, r.node, j) = IF j = k THEN Ok(None) ELSE GetNow(j)
      IN Removed(DeleteAt(db, root_hash, root, FromRaw(k, TRUE), 0))

\* C15: insert(key, empty value) does what remove(key) does and returns Ok
\* exactly when remove succeeds, so no Leaf and no Branch value slot ever
\* holds an empty value
C15_InsertEmpty == []NoEmptyValue /\ [][C15_InsertEmptyStep]_vars

\* an insert of the empty value has just removed a key that was present, and
\* the tree still holds a value
C15_Witness ==
  /\ last.op = "insert"
  /\ "value" \notin DOMAIN last
  /\ last.ret.ok
  /\ last.prev # None
  /\ \E n \in Subtree(db, root) : n.kind = "Leaf"

(***************************************************************************)
(* from                                                                    *)
(***************************************************************************)
\* t is a trie at root hash h with nothing cached and nothing to collect
LoadedAt(t, h) ==
  /\ t.ok
  /\ t.val.root_hash = h
  /\ t.val.cache = EmptyMap
  /\ t.val.passing_keys = {}
  /\ t.val.gen_keys = {}

\* from on the trie's own store: the store is left alone, and the trie loaded
\* has the root hash asked for and empty cache, passing_keys and gen_keys
C16_ReloadStep ==
  Reload =>
    /\ db' = db
    /\ root_hash \notin DOMAIN db => last'.ret = Err(InvalidStateRoot)
    /\ root_hash \in DOMAIN db =>
         /\ last'.ret.ok
         /\ root_hash' = root_hash /\ cache' = EmptyMap
         /\ passing_keys' = {} /\ gen_keys' = {}

\* C16 as stated: from(store, h) fails with InvalidStateRoot when the store
\* has no entry for h, and returns a trie with root hash h and empty cache,
\* passing_keys and gen_keys when the entry exists
C16_FromAsStated ==
  (last.op = "commit" /\ last.ret.ok) =>
    \A h \in ProofRoots : \A proof \in Proofs :
      LET Loaded(pdb) ==
            IF h \in DOMAIN pdb THEN LoadedAt(From(pdb, h), h)
            ELSE From(pdb, h) = Err(InvalidStateRoot)
      IN Loaded(ProofDb(h, proof))

\* from on the stores verify_proof builds, whose entry for h may be missing
\* or may not decode
C16_FromCases ==
  (last.op = "commit" /\ last.ret.ok) =>
    \A h \in ProofRoots : \A proof \in Proofs :
      LET Loaded(pdb) ==
            IF h \notin DOMAIN pdb THEN From(pdb, h) = Err(InvalidStateRoot)
            ELSE IF DecodeNode(pdb[h]).ok
            THEN LoadedAt(From(pdb, h), h) /\ From(pdb, h).val.root = DecodeNode(pdb[h]).val
            ELSE From(pdb, h) = Err(DecodeNode(pdb[h]).err)
      IN Loaded(ProofDb(h, proof))

\* C16, amended: from(store, h) fails with InvalidStateRoot when the store
\* has no entry for h and does not modify the store; when the entry exists
\* and decodes as a node it returns a trie with root hash h and empty cache,
\* passing_keys and gen_keys; when the entry does not decode it fails with
\* the decoder's error
C16_From == []C16_FromCases /\ [][C16_ReloadStep]_vars

\* the trie has just been loaded from its store, and among the stores a proof
\* makes there is one without the root and one whose root does not decode
C16_Witness ==
  /\ last.op = "from"
  /\ last.ret.ok
  /\ root.kind = "Branch"
  /\ \E h \in ProofRoots : \E proof \in Proofs :
       h \in DOMAIN ProofDb(h, proof) /\ ~DecodeNode(ProofDb(h, proof)[h]).ok
  /\ \E proof \in Proofs : root_hash \notin DOMAIN ProofDb(root_hash, proof)

(***************************************************************************)
(* Garbage collection                                                      *)
(***************************************************************************)
\* the digests of the Hash nodes of the tree below n over the store sdb
Referenced(sdb, n) == {m.hash : m \in {x \in Subtree(sdb, n) : x.kind = "Hash"}}

\* C17: on a store that nobody else modifies, after any sequence of
\* successful insert, remove and commit calls, a commit removes no digest
\* that the tree it commits references: every Hash digest reachable from the
\* root is in the store, before the commit and after it
C17_LiveNodesKept ==
  plain =>
    /\ StoreIntact
    /\ LET Committed(c) ==
             /\ c.ok
             /\ ~c.panic
             /\ Referenced(c.db, c.root) \subseteq DOMAIN c.db
             /\ c.removed \cap Referenced(c.db, c.root) = {}
       IN Committed(NextCommit)

\* C18: over an initially empty store that nobody else modifies, after every
\* successful commit of a trie that saw only insert, remove and commit calls,
\* each store entry is a node of the tree just committed: its root or a
\* hashed descendant
C18_OnlyLiveNodesStored ==
  (plain /\ last.op = "commit" /\ last.ret.ok)
    => DOMAIN db \subseteq {root_hash} \cup Referenced(db, root)

(***************************************************************************)
(* The shape of the tree                                                   *)
(***************************************************************************)
\* the nodes of the tree strictly below n
Below(sdb, n) ==
  CASE n.kind = "Branch" -> UNION {Subtree(sdb, n.children[i]) : i \in 1..16}
    [] n.kind = "Extension" -> Subtree(sdb, n.node)
    [] OTHER -> {}

\* the number of occupied slots of a Branch: children that are not Empty,
\* and the value
Occupied(b) ==
  Cardinality({i \in 1..16 : b.children[i].kind # "Empty"})
    + (IF b.value # None THEN 1 ELSE 0)

\* insert, remove or commit has just succeeded
AfterMutation == last.op \in {"insert", "remove", "commit"} /\ last.ret.ok

\* C19: after every successful insert, remove or commit each Branch other
\* than the root has at least two of its 17 slots occupied
C19_BranchOccupancy ==
  AfterMutation =>
    \A b \in Below(db, root) : b.kind = "Branch" => Occupied(b) >= 2

\* n with the Hash placeholders at its top resolved from the store sdb
Resolved(sdb, n) ==
  IF n.kind = "Hash" /\ n.hash \in DOMAIN sdb /\ DecodeNode(sdb[n.hash]).ok
  THEN DecodeNode(sdb[n.hash]).val
  ELSE n

\* C20: after every successful insert, remove or commit every Extension of
\* the tree has a prefix of at least one nibble and a child that is a Branch
\* once a Hash placeholder is resolved from the store
C20_ExtensionShape ==
  AfterMutation =>
    \A e \in Subtree(db, root) :
      e.kind = "Extension" =>
        /\ Len(e.prefix) >= 1
        /\ \/ Resolved(db, e.node).kind = "Branch"
           \/ e.node.kind = "Hash" /\ e.node.hash \notin DOMAIN db

\* a remove has just deleted a key, and degenerate has merged the Extension
\* it made of a Branch with one child left into the Extension above
C20_Witness ==
  /\ last.op = "remove"
  /\ last.ret.ok /\ last.ret.val = TRUE
  /\ last.prev # None
  /\ last.key = <<1>>
  /\ live[<<0>>] # None /\ live[<<0, 1>>] # None
  /\ root.kind = "Extension"
  /\ Len(root.prefix) = 2
  /\ Resolved(db, root.node).kind = "Branch"

(***************************************************************************)
(* What touches the store (SpecRead)                                       *)
(***************************************************************************)
\* the calls other than commit that the trie takes
ReadOrMutate == {"get", "contains", "insert", "remove", "get_proof", "iter"}

\* a call other than commit leaves the store and root_hash as they were
C21_Step ==
  (nops' = nops + 1 /\ last'.op \in ReadOrMutate) => UNCHANGED <<db, root_hash>>

\* after a commit root_hash is the hash the commit returned
C21_Committed == (last.op = "commit" /\ last.ret.ok) => root_hash = last.ret.val

\* C21: get, contains, insert, remove, get_proof and iter leave the store and
\* the root_hash field as they were; root_hash changes in commit only, so that
\* after a mutation it is still the hash of the last commit
C21_OnlyCommit == []C21_Committed /\ [][C21_Step]_vars

\* a read has just been made on a committed trie that was changed since: the
\* store holds nodes and root_hash is not the hash of the tree
C21_Witness ==
  /\ last.op \in {"get", "contains", "iter"}
  /\ sync = "dirty"
  /\ db # EmptyMap
  /\ root_hash # RootHashOf(root)

(***************************************************************************)
(* Store failures in commit (SpecFailing)                                  *)
(***************************************************************************)
\* a commit step: insert_batch is issued first and remove_batch after it; a
\* commit whose insert_batch fails returns the DB error and has issued no
\* remove_batch; a commit whose store call fails leaves root_hash, root and
\* passing_keys as they were
C22_Step ==
  /\ (nops' = nops + 1 /\ last'.op = "commit") =>
        /\ last'.calls \in {<<"insert_batch">>, <<"insert_batch", "remove_batch">>}
        /\ last'.ret.ok => last'.calls = <<"insert_batch", "remove_batch">>
  /\ \A fault \in StoreCalls :
        (nops' = nops + 1 /\ last'.op = "commit" /\ RootHashFailing(fault)) =>
          /\ last'.ret = Err(DBError)
          /\ fault = "insert_batch" =>
               \A i \in 1..Len(last'.calls) : last'.calls[i] # "remove_batch"
          /\ UNCHANGED <<root_hash, root, passing_keys>>

\* C22: within one commit insert_batch is issued before remove_batch; if
\* insert_batch fails the commit returns a DB error with no remove_batch
\* issued; if either store call fails, root_hash, root and passing_keys are
\* left as they were before the commit
C22_CommitOrder == [][C22_Step]_vars

\* a commit has just failed in remove_batch, after its insert_batch wrote
\* nodes, on a trie that was committed and changed since
C22_Witness ==
  /\ last.op = "commit"
  /\ last.ret = Err(DBError)
  /\ last.fault = "remove_batch"
  /\ last.calls = <<"insert_batch", "remove_batch">>
  /\ last.before # Keccak(NULL_RLP)
  /\ root_hash # RootHashOf(root)
  /\ RootHashOf(root) \in DOMAIN db
  /\ passing_keys # {}

(***************************************************************************)
(* The commit pass                                                         *)
(***************************************************************************)
\* the digests under which encode_node caches the nodes of the tree below n,
\* and the digest of n itself
Emitted(n) == DOMAIN EncodeNode(n).cache \cup {RootHashOf(n)}

\* C23: at the start of every commit pass cache and gen_keys are empty (no
\* call other than commit has added to them, get_proof on a changed trie
\* included), after every successful commit cache, gen_keys and passing_keys
\* are empty, and a commit writes only encodings of nodes of the tree it
\* commits
C23_CommitPassClean ==
  /\ cache = EmptyMap
  /\ gen_keys = {}
  /\ (last.op = "commit" /\ last.ret.ok) => passing_keys = {}
  /\ NextCommit.written \subseteq Emitted(root)

(***************************************************************************)
(* The proof of a key                                                      *)
(***************************************************************************)
RECURSIVE PathNodes(_, _, _, _)
\* the nodes on the lookup path of `path` from n on, n first, each Hash
\* placeholder resolved from the store sdb
PathNodes(sdb, n, path, path_index) ==
  LET partial == Offset(path, path_index) IN
  CASE n.kind \in {"Empty", "Leaf"} -> <<n>>
    [] n.kind = "Branch" ->
         IF partial = <<>> \/ At(partial, 0) = 16 THEN <<n>>
         ELSE <<n>> \o PathNodes(sdb, n.children[At(partial, 0) + 1], path, path_index + 1)
    [] n.kind = "Extension" ->
         LET match_len == CommonPrefix(partial, n.prefix) IN
         IF match_len = Len(n.prefix)
         THEN <<n>> \o PathNodes(sdb, n.node, path, path_index + match_len)
         ELSE <<n>>
    [] n.kind = "Hash" ->
         LET Recovered(r) ==
               IF r.ok /\ r.val # None THEN PathNodes(sdb, r.val[1], path, path_index)
               ELSE <<>>
         IN Recovered(RecoverFromDb(sdb, n.hash))

\* the encoding of n has 32 bytes or more, so n is not inlined in its parent
Addressable(n) == RlpLen(EncodeRaw(n).data) >= HASHED_LENGTH

\* the proof of key on the tree rt: the encoding of the root unless it is
\* Empty, then of every addressable node further down the lookup path
ProofOf(sdb, rt, key) ==
  LET Encodings(ns) == Tuple([i \in 1..Len(ns) |-> EncodeRaw(ns[i]).data])
      Below1(ns) == SelectSeq(Tail(ns), Addressable)
  IN IF rt.kind = "Empty" THEN <<>>
     ELSE Encodings(<<rt>> \o Below1(PathNodes(sdb, rt, FromRaw(key, TRUE), 0)))

\* C24: in every trie state, one with uncommitted mutations included,
\* get_proof(key) returns, root first and in descent order, the encoding of
\* the root (unless the root is Empty) and then of every node on the lookup
\* path of key whose encoding has 32 bytes or more, and no inlined node
C24_ProofPath ==
  (last.op = "get_proof" /\ last.ret.ok) => last.ret.val = ProofOf(db, root, last.key)

(***************************************************************************)
(* insert_at on a Leaf                                                     *)
(***************************************************************************)
\* the Leaf nodes of the tree
Leaves == {n \in Subtree(db, root) : n.kind = "Leaf"}

\* what insert_at returns for the Leaf `leaf`, the path `path` from path_index
\* on and the value v: the leaf with v when the rest of the path is the
\* leaf's key; else a Branch, under an Extension over the common prefix when
\* there is one, that holds both entries and nothing else, an entry whose
\* path ends at the Branch in the value slot
LeafArm(leaf, path, path_index, v) ==
  LET partial == Offset(path, path_index)
      m == CommonPrefix(partial, leaf.key)
      Split(n, b) ==
        /\ b.kind = "Branch"
        /\ Occupied(b) = 2
        /\ GetAt(db, root_hash, n, partial, 0) = Ok(Some(v))
        /\ GetAt(db, root_hash, n, leaf.key, 0) = Ok(Some(leaf.value))
        /\ b.value = IF At(partial, m) = 16 THEN Some(v)
                     ELSE IF At(leaf.key, m) = 16 THEN Some(leaf.value)
                     ELSE None
      Inserted(r) ==
        /\ r.ok
        /\ r.pk = {}
        /\ IF partial = leaf.key THEN r.node = FromLeaf(leaf.key, v)
           ELSE IF m = 0 THEN Split(r.node, r.node)
           ELSE /\ r.node.kind = "Extension"
                /\ r.node.prefix = Slice(partial, 0, m)
                /\ Split(r.node, r.node.node)
  IN Inserted(InsertAt(db, root_hash, leaf, path, path_index, v))

\* C25: insert_at on a Leaf overwrites the value only when the remaining path
\* is the leaf's key, nibble for nibble and of the same length; when the new
\* key extends the leaf's key, is a prefix of it or diverges from it, the leaf
\* is split into a Branch, under an Extension over the common prefix when that
\* is not empty, which keeps both entries, the entry whose path ends at the
\* Branch in the value slot
C25_LeafSplit ==
  \A leaf \in Leaves : \A k \in Keys : \A v \in Values :
    \A path_index \in 0..(2 * Len(k)) :
      LeafArm(leaf, FromRaw(k, TRUE), path_index, v)

\* an insert of a key that is a prefix of the only key there has just split
\* the leaf: an Extension over the two common nibbles, and a Branch that has
\* the new value in its value slot and the old leaf as a child
C25_Witness ==
  /\ last.op = "insert"
  /\ "value" \in DOMAIN last
  /\ last.key = <<0>>
  /\ last.prev = None
  /\ live[<<0, 1>>] # None
  /\ LeafArm(FromLeaf(FromRaw(<<0, 1>>, TRUE), live[<<0, 1>>][1]), FromRaw(<<0>>, TRUE), 0,
             last.value)
  /\ root = InsertAt(db, root_hash, FromLeaf(FromRaw(<<0, 1>>, TRUE), live[<<0, 1>>][1]),
                     FromRaw(<<0>>, TRUE), 0, last.value).node
  /\ root.kind = "Extension"
  /\ root.prefix = <<0, 0>>
  /\ root.node.value = Some(last.value)

(***************************************************************************)
(* Iteration over a corrupted store (SpecBroken)                           *)
(***************************************************************************)
\* the tree over the store as the trie wrote it holds the live pairs
TreeMatchesLive == \A k \in Keys : Get(Intact, root_hash, root, k) = Ok(live[k])

\* the lookup path of key k passes a Hash node whose entry is gone
UnderGone(k) == Loads(Intact, root, FromRaw(k, TRUE), 0) \cap Gone # {}

\* the store with the overwritten entries put right and the removed entries
\* still missing
Mended == [d \in DOMAIN db |-> IF d \in Garbled THEN lost[d] ELSE db[d]]

\* the lookup path of key k reaches a Hash node whose entry does not decode
UnderGarbled(k) == Loads(Mended, root, FromRaw(k, TRUE), 0) \cap Garbled # {}

\* the pair p is not under a node that is gone
NotUnderGone(p) == ~UnderGone(p[1])

\* the pairs the tree holds over the store as the trie wrote it, in ascending
\* order of their keys: the live pairs when no call has failed
HeldPairs ==
  LET Paired(ks) ==
        Tuple([i \in 1..Len(ks) |-> <<ks[i], Get(Intact, root_hash, root, ks[i]).val[1]>>])
  IN Paired(Ascending({k \in Keys : Get(Intact, root_hash, root, k).val # None}))

\* the pairs held in ascending order, up to the first one under a node that
\* does not decode, those under a node that is gone left out
KeptPairs ==
  LET Kept(lp, bad) ==
        SelectSeq(SubSeq(lp, 1, IF bad = {} THEN Len(lp)
                                ELSE (CHOOSE i \in bad : \A j \in bad : i <= j) - 1),
                  NotUnderGone)
      Ordered(lp) == Kept(lp, {i \in 1..Len(lp) : UnderGarbled(lp[i][1])})
  IN Ordered(HeldPairs)

\* C26: iteration always terminates; when a Hash node it meets has no entry
\* in the store it skips exactly the pairs under that node, yields every
\* other live pair in ascending order and returns None with no error; when
\* the store returns an error the iteration ends at that point; each frame
\* popped leaves the nibble path as it was when the frame was pushed. The
\* live pairs are those the tree holds over the store as the trie wrote it.
C26_BestEffort ==
  LET Ran(r) ==
        /\ r.nodes = <<>> \/ r.error
        /\ r.restored
        /\ r.pairs = Iter(db, root)
        /\ r.pairs = KeptPairs
        /\ r.error <=> (Garbled \cap Referenced(Mended, root) # {})
  IN Ran(IterAll(db, root))

\* over a store with one entry gone and one overwritten, the iteration
\* yields a live pair, skips the pair under the node that is gone and ends at
\* the node that does not decode, before a pair under it
C26_Witness ==
  /\ Gone # {}
  /\ Garbled # {}
  /\ TreeMatchesLive
  /\ HeldPairs = LivePairs
  /\ Len(Iter(db, root)) >= 1
  /\ \E k \in Keys : live[k] # None /\ UnderGone(k) /\ ~UnderGarbled(k)
  /\ \E k \in Keys : live[k] # None /\ UnderGarbled(k) /\ ~UnderGone(k)
  /\ IterAll(db, root).error

====
